---- MODULE Spec2Model ----
(***************************************************************************)
(* Verification model of the warhammer annotation tool.                    *)
(*                                                                         *)
(* The editor part models frontend/src/components/BboxAnnotator.tsx: the   *)
(* React state of the component is the state of the machine and every      *)
(* event handler is one action.  A JavaScript number is a fraction         *)
(* <<numerator, denominator>> in lowest terms.  The arithmetic on them is  *)
(* either exact (the algebra of the code) or binary floating point: every  *)
(* operation correctly rounded to MantissaBits significant bits, ties to   *)
(* even, as IEEE-754 doubles round to 53.  A specification fixes which.    *)
(***************************************************************************)
EXTENDS Integers, Sequences, FiniteSets, TLC

(***************************************************************************)
(* Bounds of the exploration.                                              *)
(***************************************************************************)
\* how many boxes crypto.randomUUID() names during one mount of the editor
MaxBoxes == 2
\* longest applied stack explored
MaxHistory == 2
\* longest run of add-box commands tried from every reachable state
MaxAdds == 3
\* wheel events and pan moves explored during one mount of the editor
MaxViewDepth == 2
\* images waiting in the training set
NumImages == 2
\* loadNextImage calls that can be awaiting the server at once
MaxPending == 2
\* significant bits of a floating-point number (a double has 53)
MantissaBits == 10
\* save and export requests the server answers in one run
MaxRequests == 4
\* wheel events and pan moves explored while the editor is also edited
MaxEditorViewDepth == 1

(***************************************************************************)
(* Arithmetic of JavaScript numbers.                                       *)
(***************************************************************************)
\* "exact" or "float": how the results of the operations are rounded
VARIABLE arithmetic

Abs(n) == IF n < 0 THEN -n ELSE n

RECURSIVE GCD(_, _)
GCD(a, b) == IF b = 0 THEN a ELSE GCD(b, a % b)

\* n/d in lowest terms with a positive denominator (d # 0)
Frac(n, d) ==
  LET s == IF d < 0 THEN -1 ELSE 1
      g == GCD(Abs(n), Abs(d))
  IN  <<(s * n) \div g, (s * d) \div g>>

\* n/d > 0 to the nearest number m * 2^e with MantissaBits bits in m, ties to
\* the even m
RECURSIVE RoundSignificand(_, _)
RoundSignificand(n, d) ==
  IF n >= (2 ^ MantissaBits) * d
  THEN LET r == RoundSignificand(n, 2 * d) IN <<2 * r[1], r[2]>>
  ELSE IF n < (2 ^ (MantissaBits - 1)) * d
  THEN LET r == RoundSignificand(2 * n, d) IN <<r[1], 2 * r[2]>>
  ELSE LET m == n \div d
           twice == 2 * (n % d)
       IN  <<IF twice > d \/ (twice = d /\ m % 2 = 1) THEN m + 1 ELSE m, 1>>

\* the value a floating-point operation returns for the exact result q
Fl(q) ==
  IF arithmetic = "exact" \/ q[1] = 0 THEN q
  ELSE LET r == RoundSignificand(Abs(q[1]), q[2])
       IN  Frac(IF q[1] < 0 THEN -r[1] ELSE r[1], r[2])

\* an integer (screen pixels, image sizes) as a number
R(n) == <<n, 1>>
\* sums over the least common denominator and products after cross-cancelling,
\* so that the intermediate integers stay small
RAdd(a, b) ==
  LET g == GCD(a[2], b[2])
  IN  Fl(Frac(a[1] * (b[2] \div g) + b[1] * (a[2] \div g), (a[2] \div g) * b[2]))
RSub(a, b) == RAdd(a, <<-b[1], b[2]>>)
RMul(a, b) ==
  LET g1 == GCD(Abs(a[1]), b[2])
      g2 == GCD(Abs(b[1]), a[2])
  IN  Fl(Frac((a[1] \div g1) * (b[1] \div g2), (a[2] \div g2) * (b[2] \div g1)))
RDiv(a, b) == RMul(a, Frac(b[2], b[1]))
RLt(a, b) == a[1] * b[2] < b[1] * a[2]
RLe(a, b) == a[1] * b[2] <= b[1] * a[2]
RMin(a, b) == IF RLe(a, b) THEN a ELSE b
RMax(a, b) == IF RLe(a, b) THEN b ELSE a
RAbs(a) == <<Abs(a[1]), a[2]>>

(***************************************************************************)
(* Program constants.                                                      *)
(***************************************************************************)
\* selectedId === null
NullId == 0
\* handleMouseUp: a gesture narrower or lower than this many screen pixels is dropped
MinDrawSize == 10
\* handleWheel: zoom is clamped between ZoomMin and ZoomMax
ZoomMin == <<1, 10>>
ZoomMax == 10
\* handleWheel: delta = -deltaY / WheelDivisor
WheelDivisor == 1000
\* img.onload: the canvas is at most this wide
MaxCanvasWidth == 800

(***************************************************************************)
(* Data model: BboxAnnotation, its optional baseBbox, and Command.         *)
(* An optional value is a sequence of length 0 (undefined) or 1.           *)
(***************************************************************************)
NoBase == <<>>
Rect(x, y, w, h) == [x |-> x, y |-> y, width |-> w, height |-> h]
HasBase(a) == a.baseBbox # NoBase
BaseOf(a) == a.baseBbox[1]

BboxAnnotation(id, x, y, w, h, label, base) ==
  [id |-> id, x |-> x, y |-> y, width |-> w, height |-> h,
   classLabel |-> label, baseBbox |-> base]

\* annotations.find(a => a.id === id): the first match, as a 0/1 sequence
Find(anns, id) ==
  LET hits == SelectSeq(anns, LAMBDA a : a.id = id)
  IN  IF hits = <<>> THEN <<>> ELSE <<hits[1]>>

ModelCommand(kind, bbox) ==
  [kind |-> kind, bbox |-> <<bbox>>, modelId |-> NullId, baseBbox |-> NoBase]
BaseCommand(kind, modelId, rect) ==
  [kind |-> kind, bbox |-> <<>>, modelId |-> modelId, baseBbox |-> <<rect>>]

\* annotations.map(a => a.id === modelId ? { ...a, baseBbox: base } : a)
SetBase(anns, modelId, base) ==
  [i \in 1..Len(anns) |->
     IF anns[i].id = modelId THEN [anns[i] EXCEPT !.baseBbox = base] ELSE anns[i]]

\* annotations.filter(a => a.id !== id)
WithoutId(anns, id) == SelectSeq(anns, LAMBDA a : a.id # id)

AddModelBoxExecute(c, anns) == Append(anns, c.bbox[1])

\* an undo of an add that leaves the box in the collection
AddModelBoxUndo_keepsBox(c, anns) == anns

AddModelBoxUndo(c, anns) == WithoutId(anns, c.bbox[1].id)
DeleteModelBoxExecute(c, anns) == WithoutId(anns, c.bbox[1].id)
DeleteModelBoxUndo(c, anns) == Append(anns, c.bbox[1])
AddBaseBoxExecute(c, anns) == SetBase(anns, c.modelId, c.baseBbox)
AddBaseBoxUndo(c, anns) == SetBase(anns, c.modelId, NoBase)
DeleteBaseBoxExecute(c, anns) == SetBase(anns, c.modelId, NoBase)
DeleteBaseBoxUndo(c, anns) == SetBase(anns, c.modelId, c.baseBbox)

\* Command.execute / Command.undo, dispatched on the command's class
CommandExecute(c, anns) ==
  CASE c.kind = "AddModelBox" -> AddModelBoxExecute(c, anns)
    [] c.kind = "DeleteModelBox" -> DeleteModelBoxExecute(c, anns)
    [] c.kind = "AddBaseBox" -> AddBaseBoxExecute(c, anns)
    [] c.kind = "DeleteBaseBox" -> DeleteBaseBoxExecute(c, anns)

CommandUndo(c, anns) ==
  CASE c.kind = "AddModelBox" -> AddModelBoxUndo(c, anns)
    [] c.kind = "DeleteModelBox" -> DeleteModelBoxUndo(c, anns)
    [] c.kind = "AddBaseBox" -> AddBaseBoxUndo(c, anns)
    [] c.kind = "DeleteBaseBox" -> DeleteBaseBoxUndo(c, anns)

(***************************************************************************)
(* The command log as a function of its three state fields.                *)
(* A log is [annotations, undoStack, redoStack].                           *)
(***************************************************************************)
LogOf(anns, us, rs) == [annotations |-> anns, undoStack |-> us, redoStack |-> rs]

\* executeCommand that forgets setRedoStack([])
executeCommand_keepRedo(log, c) ==
  LogOf(CommandExecute(c, log.annotations), Append(log.undoStack, c), log.redoStack)

executeCommand(log, c) ==
  LogOf(CommandExecute(c, log.annotations), Append(log.undoStack, c), <<>>)

\* undo that forgets to push the command to the redo stack
undo_noPush(log) ==
  IF Len(log.undoStack) = 0 THEN log
  ELSE LET c == log.undoStack[Len(log.undoStack)]
       IN  LogOf(CommandUndo(c, log.annotations),
                 SubSeq(log.undoStack, 1, Len(log.undoStack) - 1),
                 log.redoStack)

undo(log) ==
  IF Len(log.undoStack) = 0 THEN log
  ELSE LET c == log.undoStack[Len(log.undoStack)]
       IN  LogOf(CommandUndo(c, log.annotations),
                 SubSeq(log.undoStack, 1, Len(log.undoStack) - 1),
                 Append(log.redoStack, c))

\* redo that takes the oldest undone command instead of the latest
redo_oldestFirst(log) ==
  IF Len(log.redoStack) = 0 THEN log
  ELSE LET c == log.redoStack[1]
       IN  LogOf(CommandExecute(c, log.annotations),
                 Append(log.undoStack, c),
                 SubSeq(log.redoStack, 2, Len(log.redoStack)))

redo(log) ==
  IF Len(log.redoStack) = 0 THEN log
  ELSE LET c == log.redoStack[Len(log.redoStack)]
       IN  LogOf(CommandExecute(c, log.annotations),
                 Append(log.undoStack, c),
                 SubSeq(log.redoStack, 1, Len(log.redoStack) - 1))

(***************************************************************************)
(* Coordinate transforms and the base-box clamp.                           *)
(* A viewport is [scale, zoom, panX, panY]; a point is [x, y].             *)
(***************************************************************************)
Viewport(s, z, px, py) == [scale |-> s, zoom |-> z, panX |-> px, panY |-> py]
Point(x, y) == [x |-> x, y |-> y]

effectiveScale(v) == RMul(v.scale, v.zoom)

screenToImage(v, sx, sy) ==
  Point(RDiv(RSub(sx, v.panX), effectiveScale(v)),
        RDiv(RSub(sy, v.panY), effectiveScale(v)))

\* an image-to-screen transform that applies the fit scale without the zoom
imageToScreen_fitScaleOnly(v, ix, iy) ==
  Point(RAdd(RMul(ix, v.scale), v.panX), RAdd(RMul(iy, v.scale), v.panY))

imageToScreen(v, ix, iy) ==
  Point(RAdd(RMul(ix, effectiveScale(v)), v.panX),
        RAdd(RMul(iy, effectiveScale(v)), v.panY))

constrainToModelBbox(startX, startY, currentX, currentY, modelBbox) ==
  LET minX == RMin(startX, currentX)
      minY == RMin(startY, currentY)
      maxX == RMax(startX, currentX)
      maxY == RMax(startY, currentY)
      modelMaxX == RAdd(modelBbox.x, modelBbox.width)
      modelMaxY == RAdd(modelBbox.y, modelBbox.height)
      constrainedMinX == RMax(minX, modelBbox.x)
      constrainedMinY == RMax(minY, modelBbox.y)
      constrainedMaxX == RMin(maxX, modelMaxX)
      constrainedMaxY == RMin(maxY, modelMaxY)
  IN  Rect(constrainedMinX, constrainedMinY,
           RMax(R(0), RSub(constrainedMaxX, constrainedMinX)),
           RMax(R(0), RSub(constrainedMaxY, constrainedMinY)))

\* handleWheel: the zoom and pan after one wheel event at screen point (mx, my)
clampZoom(z) == RMax(Fl(ZoomMin), RMin(R(ZoomMax), z))

\* a wheel step whose pan follows the requested zoom, not the clamped one
wheelViewport_requestedZoom(v, mx, my, deltaY) ==
  LET delta == RDiv(R(-deltaY), R(WheelDivisor))
      requested == RAdd(v.zoom, delta)
      factor == RDiv(RMul(v.scale, requested), effectiveScale(v))
  IN  Viewport(v.scale, clampZoom(requested),
               RSub(mx, RMul(RSub(mx, v.panX), factor)),
               RSub(my, RMul(RSub(my, v.panY), factor)))

wheelViewport(v, mx, my, deltaY) ==
  LET delta == RDiv(R(-deltaY), R(WheelDivisor))
      newZoom == clampZoom(RAdd(v.zoom, delta))
      factor == RDiv(RMul(v.scale, newZoom), effectiveScale(v))
  IN  Viewport(v.scale, newZoom,
               RSub(mx, RMul(RSub(mx, v.panX), factor)),
               RSub(my, RMul(RSub(my, v.panY), factor)))

(***************************************************************************)
(* State.                                                                  *)
(*   BboxAnnotator (one mount): annotations, selectedId, drawing, panning, *)
(*   scale, zoom, panX, panY, currentClass, imageLoaded, mode, undoStack,  *)
(*   redoStack; imageWidth is the prop the fit scale is computed from.     *)
(*   parentAnnotations is the state onAnnotationsChange writes (the        *)
(*   parent's copy of the collection).                                     *)
(*   nextId names the boxes crypto.randomUUID() has not yet named, and     *)
(*   viewDepth counts the wheel and pan moves since the mount: both only    *)
(*   bound the exploration.                                                *)
(*   AnnotationInterface: currentImage (its imageId, the key of the        *)
(*   editor), loading, and the loadNextImage calls and the 300 ms timers   *)
(*   that are under way.  The server: annotatedImages, the images that     *)
(*   have an annotation file.                                              *)
(*   The annotation server: store, the annotation file of every image      *)
(*   (training_data_annotations/<imageId>.json); outputDir, the directories *)
(*   and files under the export's output path; response, the answer to the *)
(*   latest request; requests counts the requests answered and only        *)
(*   bounds the exploration.                                               *)
(***************************************************************************)
VARIABLES annotations, selectedId, drawing, panning, scale, zoom, panX, panY,
          currentClass, imageLoaded, mode, undoStack, redoStack, imageWidth,
          parentAnnotations, nextId, viewDepth,
          currentImage, annotatedImages, pendingLoads, loading, saveTimers,
          predictions, processedPredictions,
          store, outputDir, response, requests

logVars == <<annotations, undoStack, redoStack, parentAnnotations, nextId>>
viewVars == <<scale, zoom, panX, panY, imageLoaded, viewDepth>>
gestureVars == <<drawing, panning>>
uiVars == <<selectedId, currentClass, mode>>
sessionVars == <<currentImage, annotatedImages, pendingLoads, loading, saveTimers,
                 predictions, processedPredictions>>
\* what the editor's handlers cannot write: its props and the parent's session
serverVars == <<store, outputDir, response, requests>>
parentVars == <<imageWidth, sessionVars, arithmetic, serverVars>>
vars == <<annotations, selectedId, drawing, panning, scale, zoom, panX, panY,
          currentClass, imageLoaded, mode, undoStack, redoStack, imageWidth,
          parentAnnotations, nextId, viewDepth,
          currentImage, annotatedImages, pendingLoads, loading, saveTimers,
          predictions, processedPredictions,
          arithmetic, store, outputDir, response, requests>>

Log == LogOf(annotations, undoStack, redoStack)
View == Viewport(scale, zoom, panX, panY)

\* DrawingState without currentX/currentY: only the preview rendering reads them
NotDrawing == [isDrawing |-> FALSE, startX |-> 0, startY |-> 0]
NotPanning == [isPanning |-> FALSE, startX |-> R(0), startY |-> R(0)]

(***************************************************************************)
(* Inputs.                                                                 *)
(***************************************************************************)
\* the classLabels prop: AnnotationInterface passes the one faction of the image;
\* the component itself takes any list
ClassLabels == {"miniature"}
DefaultClass == "miniature"
\* canvas positions the pointer visits (getMousePos)
ScreenPoints == {Point(0, 0), Point(6, 30), Point(30, 30)}
\* the same under floating point: a box is drawn from (0, 0) to (26, 26) and a
\* base from inside it, (8, 8), to beyond its corner, (40, 40)
FloatScreenPoints == {Point(0, 0), Point(8, 8), Point(26, 26), Point(40, 40)}
\* e.deltaY of a wheel event: one notch each way, and one that the clamp cuts
\* off in each direction
WheelDeltas == {-20000, -100, 100, 20000}
WheelPoints == {Point(30, 30)}
\* where a pan drag (middle button, or shift + left button) starts and moves to
PanStarts == {Point(0, 0)}
PanMoves == {Point(6, 0), Point(0, 30)}
\* container.clientWidth when the image loads, and the imageWidth prop
ContainerWidths == {1200}
ImageWidths == {1600}
\* the same for the viewport: a narrow container and a wide photograph as well
ViewContainerWidths == {300, 1200}
ViewImageWidths == {1600, 4000}
\* a width whose fit scale, 800 / 1920, is no binary fraction
FloatImageWidths == {1920}
\* the images of the training set, in the order getImageList returns them
Images == 1..NumImages
\* collections the editor is mounted with (initialAnnotations)
StoredBox ==
  BboxAnnotation(1, R(6), R(6), R(42), R(42), "miniature",
                 <<Rect(R(12), R(12), R(24), R(24))>>)
StartCollections == {<<>>, <<StoredBox>>}

(***************************************************************************)
(* The annotation server's data.                                           *)
(***************************************************************************)
\* the image files getImageList finds under training_data, in the order it
\* lists them: faction/source/file, and the pixel size sharp reads from the
\* file.  The first two are files of the same name in two faction folders.
TrainingData ==
  << [imageId |-> 1, faction |-> "orks", stem |-> "a", ext |-> "jpg",
      width |-> 100, height |-> 80],
     [imageId |-> 2, faction |-> "tau", stem |-> "a", ext |-> "jpg",
      width |-> 100, height |-> 80],
     [imageId |-> 3, faction |-> "tau", stem |-> "b", ext |-> "png",
      width |-> 1000, height |-> 800] >>
ImageIds == {TrainingData[i].imageId : i \in 1..Len(TrainingData)}

\* no request answered yet
NoResponse ==
  [status |-> 0, code |-> "", errors |-> <<>>, warnings |-> <<>>,
   validation |-> <<>>, trainImages |-> 0, valImages |-> 0]

\* the server after initialize(): no annotation file, nothing exported
ServerStart ==
  /\ store = [i \in ImageIds |-> <<>>]
  /\ outputDir = {}
  /\ response = NoResponse
  /\ requests = 0

(***************************************************************************)
(* BboxAnnotator: mount, and the handlers.                                 *)
(***************************************************************************)
Mount(initialAnnotations, width) ==
  /\ annotations = initialAnnotations
  /\ parentAnnotations = initialAnnotations
  /\ selectedId = NullId
  /\ drawing = NotDrawing
  /\ panning = NotPanning
  /\ scale = R(1)
  /\ zoom = R(1)
  /\ panX = R(0)
  /\ panY = R(0)
  /\ currentClass = DefaultClass
  /\ imageLoaded = FALSE
  /\ mode = "model"
  /\ undoStack = <<>>
  /\ redoStack = <<>>
  /\ imageWidth = width
  /\ nextId = Len(initialAnnotations) + 1
  /\ viewDepth = 0

\* AnnotationInterface with the first image of the training set loaded
SessionStart ==
  /\ currentImage = 1
  /\ annotatedImages = {}
  /\ pendingLoads = 0
  /\ loading = FALSE
  /\ saveTimers = 0
  /\ predictions = <<>>
  /\ processedPredictions = <<>>

Init ==
  /\ \E a \in StartCollections, w \in ImageWidths : Mount(a, w)
  /\ SessionStart
  /\ ServerStart
  /\ arithmetic = "exact"

\* useEffect [imageUrl, imageWidth, imageHeight]: img.onload
ImgOnload(clientWidth) ==
  /\ ~imageLoaded
  /\ LET maxWidth == IF clientWidth < MaxCanvasWidth THEN clientWidth ELSE MaxCanvasWidth
     IN  scale' = RDiv(R(maxWidth), R(imageWidth))
  /\ imageLoaded' = TRUE
  /\ UNCHANGED <<zoom, panX, panY, viewDepth, parentVars>>
  /\ UNCHANGED <<logVars, gestureVars, uiVars>>

handleWheel(mousePos, deltaY) ==
  /\ viewDepth < MaxViewDepth
  /\ LET v == wheelViewport(View, R(mousePos.x), R(mousePos.y), deltaY)
     IN  /\ panX' = v.panX
         /\ panY' = v.panY
         /\ zoom' = v.zoom
  /\ viewDepth' = viewDepth + 1
  /\ UNCHANGED <<scale, imageLoaded, parentVars>>
  /\ UNCHANGED <<logVars, gestureVars, uiVars>>

\* a Reset View button that also drops the selection
resetView_deselects ==
  /\ zoom' = R(1)
  /\ panX' = R(0)
  /\ panY' = R(0)
  /\ selectedId' = NullId
  /\ UNCHANGED <<scale, imageLoaded, viewDepth, parentVars>>
  /\ UNCHANGED <<logVars, gestureVars, currentClass, mode>>

resetView ==
  /\ zoom' = R(1)
  /\ panX' = R(0)
  /\ panY' = R(0)
  /\ UNCHANGED <<scale, imageLoaded, viewDepth, parentVars>>
  /\ UNCHANGED <<logVars, gestureVars, uiVars>>

zoomToActual ==
  /\ zoom' = RDiv(R(1), scale)
  /\ panX' = R(0)
  /\ panY' = R(0)
  /\ UNCHANGED <<scale, imageLoaded, viewDepth, parentVars>>
  /\ UNCHANGED <<logVars, gestureVars, uiVars>>

isPointInBox(box, point) ==
  /\ RLe(box.x, point.x)
  /\ RLe(point.x, RAdd(box.x, box.width))
  /\ RLe(box.y, point.y)
  /\ RLe(point.y, RAdd(box.y, box.height))

\* a hit test that answers the topmost (last drawn) box under the point
clickedBox_last(anns, imagePos) ==
  LET hits == SelectSeq(anns, LAMBDA b : isPointInBox(b, imagePos))
  IN  IF hits = <<>> THEN <<>> ELSE <<hits[Len(hits)]>>

\* annotations.find(box => isPointInBox(box, imagePos)), as a 0/1 sequence
clickedBox(anns, imagePos) ==
  LET hits == SelectSeq(anns, LAMBDA b : isPointInBox(b, imagePos))
  IN  IF hits = <<>> THEN <<>> ELSE <<hits[1]>>

StartDrawing(screenPos) ==
  drawing' = [isDrawing |-> TRUE, startX |-> screenPos.x, startY |-> screenPos.y]

handleMouseDown(screenPos, button, shiftKey) ==
  LET imagePos == screenToImage(View, R(screenPos.x), R(screenPos.y))
      selectedBox == Find(annotations, selectedId)
      clicked == clickedBox(annotations, imagePos)
  IN
  /\ UNCHANGED <<logVars, viewVars, parentVars, currentClass, mode>>
  /\ IF button = 1 \/ (button = 0 /\ shiftKey)
     THEN /\ panning' = [isPanning |-> TRUE,
                         startX |-> RSub(R(screenPos.x), panX),
                         startY |-> RSub(R(screenPos.y), panY)]
          /\ UNCHANGED <<drawing, selectedId>>
     ELSE IF button # 0
     THEN UNCHANGED <<drawing, panning, selectedId>>
     ELSE IF /\ mode = "base"
             /\ selectedId # NullId
             /\ selectedBox # <<>>
             /\ isPointInBox(selectedBox[1], imagePos)
     THEN /\ StartDrawing(screenPos)
          /\ UNCHANGED <<panning, selectedId>>
     ELSE IF clicked # <<>> /\ mode = "model"
     THEN /\ selectedId' = clicked[1].id
          /\ UNCHANGED <<drawing, panning>>
     ELSE IF clicked # <<>> /\ mode = "base" /\ clicked[1].id # selectedId
     THEN /\ selectedId' = clicked[1].id
          /\ UNCHANGED <<drawing, panning>>
     ELSE /\ selectedId' = IF mode = "model" THEN NullId ELSE selectedId
          /\ StartDrawing(screenPos)
          /\ UNCHANGED panning

handleMouseMove(screenPos) ==
  /\ UNCHANGED <<logVars, uiVars, parentVars, scale, zoom, imageLoaded, panning>>
  /\ IF panning.isPanning
     THEN /\ viewDepth < MaxViewDepth
          /\ panX' = RSub(R(screenPos.x), panning.startX)
          /\ panY' = RSub(R(screenPos.y), panning.startY)
          /\ viewDepth' = viewDepth + 1
          /\ UNCHANGED drawing
     ELSE UNCHANGED <<drawing, panX, panY, viewDepth>>

\* a size check that drops a gesture only when both extents are too small
belowMinimumSize_both(width, height) == width < MinDrawSize /\ height < MinDrawSize

\* handleMouseUp: width < 10 || height < 10, in screen pixels
belowMinimumSize(width, height) == width < MinDrawSize \/ height < MinDrawSize

\* a command execution that keeps the new collection to the editor
Execute_parentNotTold(c) ==
  /\ Len(undoStack) < MaxHistory
  /\ LET n == executeCommand(Log, c)
     IN  /\ annotations' = n.annotations
         /\ parentAnnotations' = parentAnnotations
         /\ undoStack' = n.undoStack
         /\ redoStack' = n.redoStack

\* executeCommand as the handlers call it: the log changes, the parent is told
Execute(c) ==
  /\ Len(undoStack) < MaxHistory
  /\ LET n == executeCommand(Log, c)
     IN  /\ annotations' = n.annotations
         /\ parentAnnotations' = n.annotations
         /\ undoStack' = n.undoStack
         /\ redoStack' = n.redoStack

handleMouseUp(screenPos) ==
  LET width == Abs(screenPos.x - drawing.startX)
      height == Abs(screenPos.y - drawing.startY)
      startImage == screenToImage(View, R(drawing.startX), R(drawing.startY))
      endImage == screenToImage(View, R(screenPos.x), R(screenPos.y))
      selectedAnnotation == Find(annotations, selectedId)
  IN
  /\ UNCHANGED <<viewVars, uiVars, parentVars>>
  /\ IF panning.isPanning
     THEN /\ panning' = NotPanning
          /\ UNCHANGED <<drawing, logVars>>
     ELSE IF ~drawing.isDrawing
     THEN UNCHANGED <<drawing, panning, logVars>>
     ELSE IF belowMinimumSize(width, height)
     THEN /\ drawing' = NotDrawing
          /\ UNCHANGED <<panning, logVars>>
     ELSE IF mode = "model"
     THEN /\ nextId <= MaxBoxes
          /\ Execute(ModelCommand("AddModelBox",
               BboxAnnotation(nextId,
                              RMin(startImage.x, endImage.x),
                              RMin(startImage.y, endImage.y),
                              RAbs(RSub(endImage.x, startImage.x)),
                              RAbs(RSub(endImage.y, startImage.y)),
                              currentClass, NoBase)))
          /\ nextId' = nextId + 1
          /\ drawing' = NotDrawing
          /\ UNCHANGED panning
     ELSE IF mode = "base" /\ selectedId # NullId
     THEN IF selectedAnnotation = <<>>
          THEN UNCHANGED <<drawing, panning, logVars>>
          ELSE LET baseBbox == constrainToModelBbox(startImage.x, startImage.y,
                                                    endImage.x, endImage.y,
                                                    selectedAnnotation[1])
               IN  IF RLt(R(0), baseBbox.width) /\ RLt(R(0), baseBbox.height)
                   THEN /\ Execute(BaseCommand("AddBaseBox", selectedId, baseBbox))
                        /\ drawing' = NotDrawing
                        /\ UNCHANGED <<panning, nextId>>
                   ELSE /\ drawing' = NotDrawing
                        /\ UNCHANGED <<panning, logVars>>
     ELSE /\ drawing' = NotDrawing
          /\ UNCHANGED <<panning, logVars>>

\* handleMouseUp reaches its last statement, setDrawing(prev => ({ ...prev,
\* isDrawing: false })), or the same statement of the size check: it does when
\* it does not return early after ending a pan, and not at the missing parent
\* of a base box
mouseUpClearsDrawing(screenPos) ==
  /\ ~panning.isPanning
  /\ drawing.isDrawing
  /\ \/ belowMinimumSize(Abs(screenPos.x - drawing.startX),
                         Abs(screenPos.y - drawing.startY))
     \/ mode = "model"
     \/ ~(mode = "base" /\ selectedId # NullId /\ Find(annotations, selectedId) = <<>>)

handleDeleteSelected ==
  LET bbox == Find(annotations, selectedId)
  IN
  /\ UNCHANGED <<viewVars, gestureVars, parentVars, currentClass, mode, nextId>>
  /\ IF selectedId = NullId \/ bbox = <<>>
     THEN UNCHANGED <<annotations, undoStack, redoStack, parentAnnotations, selectedId>>
     ELSE /\ Execute(ModelCommand("DeleteModelBox", bbox[1]))
          /\ selectedId' = NullId

handleDeleteBaseBbox ==
  LET bbox == Find(annotations, selectedId)
  IN
  /\ UNCHANGED <<viewVars, gestureVars, uiVars, parentVars, nextId>>
  /\ IF selectedId = NullId \/ bbox = <<>> \/ ~HasBase(bbox[1])
     THEN UNCHANGED <<annotations, undoStack, redoStack, parentAnnotations>>
     ELSE Execute(BaseCommand("DeleteBaseBox", selectedId, BaseOf(bbox[1])))

\* annotations.map(a => a.id === selectedId ? { ...a, classLabel: newClass } : a)
relabel(anns, id, newClass) ==
  [i \in 1..Len(anns) |->
     IF anns[i].id = id THEN [anns[i] EXCEPT !.classLabel = newClass] ELSE anns[i]]

handleClassChange(newClass) ==
  /\ currentClass' = newClass
  /\ IF selectedId # NullId
     THEN /\ annotations' = relabel(annotations, selectedId, newClass)
          /\ parentAnnotations' = annotations'
     ELSE UNCHANGED <<annotations, parentAnnotations>>
  /\ UNCHANGED <<viewVars, gestureVars, parentVars, selectedId, mode,
                 undoStack, redoStack, nextId>>

\* the Model and Base buttons; Base is disabled while nothing is selected
setMode(m) ==
  /\ m = "base" => selectedId # NullId
  /\ mode' = m
  /\ UNCHANGED <<logVars, viewVars, gestureVars, parentVars, selectedId, currentClass>>

\* undo / redo as the buttons and the keyboard call them
Undo ==
  /\ UNCHANGED <<viewVars, gestureVars, uiVars, parentVars, nextId>>
  /\ IF Len(undoStack) = 0
     THEN UNCHANGED <<annotations, undoStack, redoStack, parentAnnotations>>
     ELSE LET n == undo(Log)
          IN  /\ annotations' = n.annotations
              /\ parentAnnotations' = n.annotations
              /\ undoStack' = n.undoStack
              /\ redoStack' = n.redoStack

Redo ==
  /\ UNCHANGED <<viewVars, gestureVars, uiVars, parentVars, nextId>>
  /\ IF Len(redoStack) = 0
     THEN UNCHANGED <<annotations, undoStack, redoStack, parentAnnotations>>
     ELSE LET n == redo(Log)
          IN  /\ annotations' = n.annotations
              /\ parentAnnotations' = n.annotations
              /\ undoStack' = n.undoStack
              /\ redoStack' = n.redoStack

(***************************************************************************)
(* The editor: one mounted BboxAnnotator driven by the user.               *)
(***************************************************************************)
Next ==
  \/ \E w \in ContainerWidths : ImgOnload(w)
  \/ resetView
  \/ zoomToActual
  \/ \E p \in ScreenPoints, b \in {0, 2} : handleMouseDown(p, b, FALSE)
  \/ \E p \in ScreenPoints : handleMouseMove(p)
  \/ \E p \in ScreenPoints : handleMouseUp(p)
  \/ handleDeleteSelected
  \/ handleDeleteBaseBbox
  \/ \E c \in ClassLabels : handleClassChange(c)
  \/ \E m \in {"model", "base"} : setMode(m)
  \/ Undo
  \/ Redo

Spec == Init /\ [][Next]_vars

(***************************************************************************)
(* The whole editor: every handler of one mounted BboxAnnotator, with any  *)
(* mouse button and the shift key, the wheel and the view buttons.         *)
(***************************************************************************)
\* deltaY of the wheel events
EditorWheelDeltas == {-100}

\* where the pointer goes down, moves and comes up
EditorPoints == {Point(6, 6), Point(60, 60)}

\* an image as wide as the canvas is shown at its natural size
EditorImageWidths == {800}

InitEditor ==
  /\ \E w \in EditorImageWidths : Mount(<<StoredBox>>, w)
  /\ SessionStart
  /\ ServerStart
  /\ arithmetic = "exact"

\* the user works on the image once it is shown
NextEditor ==
  \/ \E w \in ContainerWidths : ImgOnload(w)
  \/ /\ imageLoaded /\ viewDepth < MaxEditorViewDepth
     /\ \E p \in WheelPoints, d \in EditorWheelDeltas : handleWheel(p, d)
  \/ imageLoaded /\ resetView
  \/ imageLoaded /\ zoomToActual
  \/ /\ imageLoaded
     /\ \E p \in EditorPoints, b \in {0, 1, 2}, s \in BOOLEAN : handleMouseDown(p, b, s)
  \/ /\ imageLoaded /\ (panning.isPanning => viewDepth < MaxEditorViewDepth)
     /\ \E p \in EditorPoints : handleMouseMove(p)
  \/ imageLoaded /\ \E p \in EditorPoints : handleMouseUp(p)
  \/ imageLoaded /\ handleDeleteSelected
  \/ imageLoaded /\ handleDeleteBaseBbox
  \/ imageLoaded /\ \E c \in ClassLabels : handleClassChange(c)
  \/ imageLoaded /\ \E m \in {"model", "base"} : setMode(m)
  \/ imageLoaded /\ Undo
  \/ imageLoaded /\ Redo

SpecEditor == InitEditor /\ [][NextEditor]_vars

(***************************************************************************)
(* The editor mounted with two class labels to choose from.                *)
(***************************************************************************)
\* the classLabels prop of the editor
EditorLabels == {"miniature", "vehicle"}

NextLabels ==
  \/ \E p \in ScreenPoints : handleMouseDown(p, 0, FALSE)
  \/ \E p \in ScreenPoints : handleMouseUp(p)
  \/ handleDeleteSelected
  \/ \E c \in EditorLabels : handleClassChange(c)
  \/ Undo
  \/ Redo

SpecLabels == Init /\ [][NextLabels]_vars

(***************************************************************************)
(* The same editor computing in floating point.                            *)
(***************************************************************************)
InitFloat ==
  /\ \E w \in FloatImageWidths : Mount(<<>>, w)
  /\ SessionStart
  /\ ServerStart
  /\ arithmetic = "float"

NextFloat ==
  \/ \E w \in ContainerWidths : ImgOnload(w)
  \/ \E p \in FloatScreenPoints : handleMouseDown(p, 0, FALSE)
  \/ \E p \in FloatScreenPoints : handleMouseUp(p)
  \/ \E m \in {"model", "base"} : setMode(m)
  \/ Undo
  \/ Redo

SpecFloat == InitFloat /\ [][NextFloat]_vars

(***************************************************************************)
(* The viewport: one mounted BboxAnnotator zoomed and panned by the user.  *)
(***************************************************************************)
InitView ==
  /\ \E w \in ViewImageWidths : Mount(<<>>, w)
  /\ SessionStart
  /\ ServerStart
  /\ arithmetic = "exact"

NextView ==
  \/ \E w \in ViewContainerWidths : ImgOnload(w)
  \/ \E p \in WheelPoints, d \in WheelDeltas : handleWheel(p, d)
  \/ resetView
  \/ zoomToActual
  \/ \E p \in PanStarts : handleMouseDown(p, 1, FALSE)
  \/ \E p \in PanStarts : handleMouseDown(p, 0, TRUE)
  \/ \E p \in PanMoves : handleMouseMove(p)
  \/ \E p \in PanMoves : handleMouseUp(p)

SpecView == InitView /\ [][NextView]_vars

(***************************************************************************)
(* AnnotationInterface and the server's annotation store.                  *)
(* A handler that awaits the server is one action up to the await and one  *)
(* for the continuation; the answer of POST /api/annotate/save is an input *)
(* (the validator or the file write can refuse).  setCurrentImage and      *)
(* setAnnotations of one continuation are rendered together (React 18).    *)
(***************************************************************************)
\* GET /api/annotate/next: getNextImage, the first image without an annotation
\* file, as a 0/1 sequence
getNextImage(annotated) ==
  LET waiting == Images \ annotated
  IN  IF waiting = {} THEN <<>>
      ELSE <<CHOOSE i \in waiting : \A j \in waiting : i <= j>>

\* loadNextImage up to its first await
BeginLoad ==
  /\ pendingLoads < MaxPending
  /\ pendingLoads' = pendingLoads + 1
  /\ loading' = TRUE

\* a new key unmounts the editor and mounts a fresh one
Remount(initialAnnotations, width) ==
  /\ annotations' = initialAnnotations
  /\ selectedId' = NullId
  /\ drawing' = NotDrawing
  /\ panning' = NotPanning
  /\ scale' = R(1)
  /\ zoom' = R(1)
  /\ panX' = R(0)
  /\ panY' = R(0)
  /\ currentClass' = DefaultClass
  /\ imageLoaded' = FALSE
  /\ mode' = "model"
  /\ undoStack' = <<>>
  /\ redoStack' = <<>>
  /\ imageWidth' = width
  /\ nextId' = Len(initialAnnotations) + 1
  /\ viewDepth' = 0

\* loadNextImage after its awaits: the answers of /next and /image/:imageId
loadNextImageDone ==
  LET image == getNextImage(annotatedImages)
      \* an image without an annotation file has no annotations to load
      newAnnotations == <<>>
  IN
  /\ pendingLoads > 0
  /\ pendingLoads' = pendingLoads - 1
  /\ loading' = FALSE
  /\ UNCHANGED <<annotatedImages, saveTimers, arithmetic, serverVars>>
  /\ IF image = <<>>
     THEN UNCHANGED <<currentImage, imageWidth, logVars, viewVars, gestureVars, uiVars,
                      predictions, processedPredictions>>
     ELSE /\ currentImage' = image[1]
          /\ parentAnnotations' = newAnnotations
          /\ predictions' = <<>>
          /\ processedPredictions' = <<>>
          /\ IF image[1] # currentImage
             THEN \E w \in ImageWidths : Remount(newAnnotations, w)
             ELSE UNCHANGED <<annotations, undoStack, redoStack, nextId, imageWidth,
                              viewVars, gestureVars, uiVars>>

\* saveAnnotations; stored is the server's answer (success, or errors / a failure)
saveAnnotations(stored) ==
  /\ ~loading
  /\ parentAnnotations # <<>>
  /\ IF stored
     THEN /\ saveTimers = 0
          /\ annotatedImages' = annotatedImages \cup {currentImage}
          /\ saveTimers' = saveTimers + 1
     ELSE UNCHANGED <<annotatedImages, saveTimers>>
  /\ UNCHANGED <<currentImage, pendingLoads, loading, imageWidth, arithmetic, serverVars>>
  /\ UNCHANGED <<predictions, processedPredictions>>
  /\ UNCHANGED <<logVars, viewVars, gestureVars, uiVars>>

\* setTimeout(() => loadNextImage(), 300) fires
saveTimeout ==
  /\ saveTimers > 0
  /\ saveTimers' = saveTimers - 1
  /\ BeginLoad
  /\ UNCHANGED <<currentImage, annotatedImages, imageWidth, arithmetic, serverVars>>
  /\ UNCHANGED <<predictions, processedPredictions>>
  /\ UNCHANGED <<logVars, viewVars, gestureVars, uiVars>>

\* skipImage up to its call of loadNextImage; the answer of the POST is not read
skipImage(stored) ==
  /\ ~loading
  /\ annotatedImages' = IF stored THEN annotatedImages \cup {currentImage}
                                  ELSE annotatedImages
  /\ parentAnnotations' = <<>>
  /\ BeginLoad
  /\ UNCHANGED <<currentImage, saveTimers, imageWidth, arithmetic, serverVars>>
  /\ UNCHANGED <<predictions, processedPredictions>>
  /\ UNCHANGED <<annotations, undoStack, redoStack, nextId>>
  /\ UNCHANGED <<viewVars, gestureVars, uiVars>>

InitSession ==
  /\ \E w \in ImageWidths : Mount(<<>>, w)
  /\ SessionStart
  /\ ServerStart
  /\ arithmetic = "exact"

NextSession ==
  \/ \E w \in ContainerWidths : ImgOnload(w)
  \/ \E p \in ScreenPoints : handleMouseDown(p, 0, FALSE)
  \/ \E p \in ScreenPoints : handleMouseUp(p)
  \/ handleDeleteSelected
  \/ Undo
  \/ Redo
  \/ \E stored \in BOOLEAN : saveAnnotations(stored)
  \/ saveTimeout
  \/ \E stored \in BOOLEAN : skipImage(stored)
  \/ loadNextImageDone

SpecSession == InitSession /\ [][NextSession]_vars

(***************************************************************************)
(* AnnotationInterface with machine suggestions, over the editor that      *)
(* takes its collection from initialAnnotations whenever the parent's      *)
(* list changes (useEffect [initialAnnotations]).  A processed suggestion  *)
(* is [box, validationAction].                                             *)
(***************************************************************************)
\* getAIPredictions once GET /api/annotate/predict/:imageId has answered with
\* two suggestions; their ids (pred_<idx>_<time>) are no ids of drawn boxes.
\* One request is explored, made before the image is edited.
getAIPredictions ==
  LET predictedAnnotations ==
        << BboxAnnotation(MaxBoxes + 1, R(6), R(6), R(42), R(42), DefaultClass, NoBase),
           BboxAnnotation(MaxBoxes + 2, R(0), R(0), R(5), R(5), DefaultClass, NoBase) >>
  IN
  /\ ~loading
  /\ predictions = <<>> /\ processedPredictions = <<>>
  /\ undoStack = <<>> /\ redoStack = <<>>
  /\ predictions' = predictedAnnotations
  /\ parentAnnotations' = predictedAnnotations
  /\ annotations' = predictedAnnotations
  /\ UNCHANGED <<undoStack, redoStack, nextId, viewVars, gestureVars, uiVars>>
  /\ UNCHANGED <<imageWidth, arithmetic, serverVars, processedPredictions>>
  /\ UNCHANGED <<currentImage, annotatedImages, pendingLoads, loading, saveTimers>>

\* acceptPrediction, rejectPrediction and redrawPrediction, called from the
\* buttons the panel shows for each of predictions
processPrediction(id, validationAction) ==
  LET prediction == Find(parentAnnotations, id)
  IN
  /\ \E i \in 1..Len(predictions) : predictions[i].id = id
  /\ processedPredictions' =
       IF prediction # <<>>
       THEN Append(processedPredictions,
                   [box |-> prediction[1], validationAction |-> validationAction])
       ELSE processedPredictions
  /\ parentAnnotations' = WithoutId(parentAnnotations, id)
  /\ annotations' = parentAnnotations'
  /\ predictions' = WithoutId(predictions, id)
  /\ UNCHANGED <<undoStack, redoStack, nextId, viewVars, gestureVars, uiVars>>
  /\ UNCHANGED <<imageWidth, arithmetic, serverVars>>
  /\ UNCHANGED <<currentImage, annotatedImages, pendingLoads, loading, saveTimers>>

\* saveAnnotations: [...annotations, ...acceptedPredictions], the list sent
allAnnotations(anns, processed) ==
  LET accepted == SelectSeq(processed, LAMBDA p : p.validationAction = "accepted")
  IN  anns \o [k \in 1..Len(accepted) |-> accepted[k].box]

NextPredict ==
  \/ getAIPredictions
  \/ \E id \in {MaxBoxes + 1, MaxBoxes + 2},
        validationAction \in {"accepted", "rejected", "redrawn"} :
       processPrediction(id, validationAction)
  \/ \E p \in ScreenPoints : handleMouseDown(p, 0, FALSE)
  \/ \E p \in ScreenPoints : handleMouseUp(p)
  \/ handleDeleteSelected
  \/ Undo
  \/ Redo

SpecPredict == InitSession /\ [][NextPredict]_vars

(***************************************************************************)
(* The annotation server: AnnotationService and the routes that call it.   *)
(* A number that is no finite number has denominator 0: <<0, 0>> is NaN,   *)
(* <<1, 0>> and <<-1, 0>> are the infinities.                              *)
(***************************************************************************)
IsFinite(q) == q[2] # 0
\* a / b for finite a and b
JsDiv(a, b) ==
  IF b[1] # 0 THEN RDiv(a, b)
  ELSE <<(IF a[1] > 0 THEN 1 ELSE IF a[1] < 0 THEN -1 ELSE 0), 0>>
\* Math.floor
Floor(q) == q[1] \div q[2]

\* validateAnnotation: a model box narrower or lower than this is "very small"
MinBoxSize == 10
\* validateAnnotation: iou > 0.9 is a likely duplicate
DuplicateIoU == <<9, 10>>
\* exportImageAndLabel: toFixed(6)
FixedDigits == 6

\* Number.prototype.toFixed(6), as the number the digits denote
toFixed(q) ==
  IF ~IsFinite(q) THEN q
  ELSE LET unit == 10 ^ FixedDigits
           m == (2 * Abs(q[1]) * unit + q[2]) \div (2 * q[2])
       IN  Frac(IF q[1] < 0 THEN -m ELSE m, unit)

BboxAnnotationData(id, model, base, label) ==
  [id |-> id, modelBbox |-> model, baseBbox |-> base, classLabel |-> label]

\* imageId 0 and imagePath 0 are the missing fields of a request; imagePath
\* is otherwise the image whose file the path names, if it names one
ImageAnnotation(imageId, imagePath, w, h, anns) ==
  [imageId |-> imageId, imagePath |-> imagePath, width |-> w, height |-> h,
   annotations |-> anns]

\* bboxId is optional: <<>> or <<id>>
QualityIssue(type, code, bboxId) == [type |-> type, code |-> code, bboxId |-> bboxId]

\* sharp(imagePath).metadata(): rejects (<<>>) when the path names no image
metadata(imagePath) ==
  LET hits == SelectSeq(TrainingData, LAMBDA im : im.imageId = imagePath)
  IN  IF hits = <<>> THEN <<>>
      ELSE <<[width |-> hits[1].width, height |-> hits[1].height]>>

calculateIoU(a, b) ==
  LET a_x2 == RAdd(a.x, a.width)
      a_y2 == RAdd(a.y, a.height)
      b_x2 == RAdd(b.x, b.width)
      b_y2 == RAdd(b.y, b.height)
      x1 == RMax(a.x, b.x)
      y1 == RMax(a.y, b.y)
      x2 == RMin(a_x2, b_x2)
      y2 == RMin(a_y2, b_y2)
      intersection == RMul(RSub(x2, x1), RSub(y2, y1))
      areaA == RMul(a.width, a.height)
      areaB == RMul(b.width, b.height)
      union == RSub(RAdd(areaA, areaB), intersection)
  IN  IF RLt(x2, x1) \/ RLt(y2, y1) THEN R(0)
      ELSE JsDiv(intersection, union)

\* a bounds check that also refuses a box that ends on the right or the bottom
\* edge of the image
outOfBounds_edgesExcluded(model, imgWidth, imgHeight) ==
  \/ RLt(model.x, R(0))
  \/ RLt(model.y, R(0))
  \/ RLe(R(imgWidth), RAdd(model.x, model.width))
  \/ RLe(R(imgHeight), RAdd(model.y, model.height))

\* validateAnnotation, check 1: the model box passes an edge of the image
outOfBounds(model, imgWidth, imgHeight) ==
  \/ RLt(model.x, R(0))
  \/ RLt(model.y, R(0))
  \/ RLt(R(imgWidth), RAdd(model.x, model.width))
  \/ RLt(R(imgHeight), RAdd(model.y, model.height))

\* a size check that asks for both sides to be small
tooSmall_bothSides(model) ==
  RLt(model.width, R(MinBoxSize)) /\ RLt(model.height, R(MinBoxSize))

\* validateAnnotation, check 2: the model box is very small
tooSmall(model) ==
  RLt(model.width, R(MinBoxSize)) \/ RLt(model.height, R(MinBoxSize))

\* a containment check that refuses a base that touches an edge of its box
baseOutside_touching(model, base) ==
  \/ RLe(base.x, model.x)
  \/ RLe(base.y, model.y)
  \/ RLe(RAdd(model.x, model.width), RAdd(base.x, base.width))
  \/ RLe(RAdd(model.y, model.height), RAdd(base.y, base.height))

\* validateAnnotation, check 3: a corner of the base lies outside the model box
baseOutside(model, base) ==
  \/ RLt(base.x, model.x)
  \/ RLt(base.y, model.y)
  \/ RLt(RAdd(model.x, model.width), RAdd(base.x, base.width))
  \/ RLt(RAdd(model.y, model.height), RAdd(base.y, base.height))

\* validateAnnotation, the body of the loop over the boxes
bboxIssues(bbox, imgWidth, imgHeight) ==
  (IF outOfBounds(bbox.modelBbox, imgWidth, imgHeight)
   THEN <<QualityIssue("error", "BBOX_OUT_OF_BOUNDS", <<bbox.id>>)>> ELSE <<>>)
  \o (IF tooSmall(bbox.modelBbox)
      THEN <<QualityIssue("warning", "BBOX_TOO_SMALL", <<bbox.id>>)>> ELSE <<>>)
  \o (IF bbox.baseBbox # NoBase /\ baseOutside(bbox.modelBbox, bbox.baseBbox[1])
      THEN <<QualityIssue("error", "BASE_OUTSIDE_MODEL", <<bbox.id>>)>> ELSE <<>>)

RECURSIVE allBboxIssues(_, _, _)
allBboxIssues(anns, imgWidth, imgHeight) ==
  IF anns = <<>> THEN <<>>
  ELSE bboxIssues(Head(anns), imgWidth, imgHeight)
       \o allBboxIssues(Tail(anns), imgWidth, imgHeight)

\* a duplicate check that only compares boxes of one class
RECURSIVE duplicateIssues_sameClass(_, _, _)
duplicateIssues_sameClass(anns, i, j) ==
  IF i > Len(anns) THEN <<>>
  ELSE IF j > Len(anns) THEN duplicateIssues_sameClass(anns, i + 1, i + 2)
  ELSE LET iou == calculateIoU(anns[i].modelBbox, anns[j].modelBbox)
       IN  (IF /\ anns[i].classLabel = anns[j].classLabel
               /\ IsFinite(iou) /\ RLt(DuplicateIoU, iou)
            THEN <<QualityIssue("warning", "DUPLICATE_BOX", <<anns[i].id>>)>>
            ELSE <<>>)
           \o duplicateIssues_sameClass(anns, i, j + 1)

\* validateAnnotation, the loops over the pairs i < j
RECURSIVE duplicateIssues(_, _, _)
duplicateIssues(anns, i, j) ==
  IF i > Len(anns) THEN <<>>
  ELSE IF j > Len(anns) THEN duplicateIssues(anns, i + 1, i + 2)
  ELSE LET iou == calculateIoU(anns[i].modelBbox, anns[j].modelBbox)
       IN  (IF IsFinite(iou) /\ RLt(DuplicateIoU, iou)
            THEN <<QualityIssue("warning", "DUPLICATE_BOX", <<anns[i].id>>)>>
            ELSE <<>>)
           \o duplicateIssues(anns, i, j + 1)

\* a rejected metadata() is caught and reported as an issue of its own
validateAnnotation(annotation) ==
  LET m == metadata(annotation.imagePath)
  IN  IF m = <<>>
      THEN <<QualityIssue("error", "BBOX_OUT_OF_BOUNDS", <<>>)>>
      ELSE allBboxIssues(annotation.annotations, m[1].width, m[1].height)
           \o duplicateIssues(annotation.annotations, 1, 2)

\* issues.filter(i => i.type === type)
issuesOfType(issues, type) == SelectSeq(issues, LAMBDA i : i.type = type)

\* saveAnnotation: writeFile of <imageId>.json replaces the file
saveAnnotation(st, annotation) == [st EXCEPT ![annotation.imageId] = <<annotation>>]

\* a save route that writes the record whatever the checks found
saveChecked_storesAnyway(annotation, issues) ==
  /\ store' = saveAnnotation(store, annotation)
  /\ response' = IF Len(issuesOfType(issues, "error")) > 0
                 THEN [NoResponse EXCEPT !.status = 400,
                         !.errors = issuesOfType(issues, "error"),
                         !.warnings = issuesOfType(issues, "warning")]
                 ELSE [NoResponse EXCEPT !.status = 200,
                         !.warnings = issuesOfType(issues, "warning")]

\* POST /api/annotate/save, from the quality checks on
saveChecked(annotation, issues) ==
  IF Len(issuesOfType(issues, "error")) > 0
  THEN /\ response' = [NoResponse EXCEPT !.status = 400,
                         !.errors = issuesOfType(issues, "error"),
                         !.warnings = issuesOfType(issues, "warning")]
       /\ UNCHANGED store
  ELSE /\ store' = saveAnnotation(store, annotation)
       /\ response' = [NoResponse EXCEPT !.status = 200,
                         !.warnings = issuesOfType(issues, "warning")]

\* POST /api/annotate/save
postSave(annotation) ==
  /\ requests < MaxRequests
  /\ requests' = requests + 1
  /\ IF annotation.imageId = 0 \/ annotation.imagePath = 0
     THEN /\ response' = [NoResponse EXCEPT !.status = 400, !.code = "INVALID_REQUEST"]
          /\ UNCHANGED store
     ELSE saveChecked(annotation, validateAnnotation(annotation))
  /\ UNCHANGED <<outputDir, imageWidth, sessionVars, arithmetic>>
  /\ UNCHANGED <<logVars, viewVars, gestureVars, uiVars>>

\* getImageList(true).filter(img => img.isAnnotated)
annotatedImagesOf(st) == SelectSeq(TrainingData, LAMBDA im : st[im.imageId] # <<>>)

RECURSIVE SumLen(_)
SumLen(ss) == IF ss = <<>> THEN 0 ELSE Len(Head(ss)) + SumLen(Tail(ss))

\* validateAllAnnotations: what the loop keeps of one image
imageIssues(imageId, issues) ==
  [imageId |-> imageId, errors |-> issuesOfType(issues, "error"), warnings |-> issuesOfType(issues, "warning")]

\* validateAllAnnotations: the counts and the list it returns
validationSummary(perImage) ==
  LET invalid == SelectSeq(perImage, LAMBDA r : Len(r.errors) > 0)
  IN  [totalAnnotations |-> Len(perImage),
       validAnnotations |-> Len(perImage) - Len(invalid),
       invalidAnnotations |-> Len(invalid),
       totalErrors |-> SumLen([i \in 1..Len(perImage) |-> perImage[i].errors]),
       totalWarnings |-> SumLen([i \in 1..Len(perImage) |-> perImage[i].warnings]),
       issues |-> SelectSeq(perImage,
                    LAMBDA r : Len(r.errors) > 0 \/ Len(r.warnings) > 0)]

validateAllAnnotations(st) ==
  validationSummary(
    [i \in 1..Len(annotatedImagesOf(st)) |->
       imageIssues(annotatedImagesOf(st)[i].imageId,
                   validateAnnotation(st[annotatedImagesOf(st)[i].imageId][1]))])

(***************************************************************************)
(* Export.  An entry of the output directory is [dir, name, content]: a    *)
(* directory made by mkdir (of the four, the parents are left implicit) or *)
(* a file; writing a file replaces the entry of the same dir and name.     *)
(***************************************************************************)
\* what an entry holds: kind is "dir", "image" (bytes: the image the bytes are
\* of), "label" (lines: each line the sequence of its fields), "classes" or
\* "yaml" (names: the class names listed)
FileContent(kind, bytes, lines, names) ==
  [kind |-> kind, bytes |-> bytes, lines |-> lines, names |-> names]

mkdir(out, d) ==
  out \cup {[dir |-> d, name |-> [stem |-> "", ext |-> ""],
             content |-> FileContent("dir", 0, <<>>, <<>>)]}
writeFile(out, d, name, content) ==
  {e \in out : ~(e.dir = d /\ e.name = name)}
    \cup {[dir |-> d, name |-> name, content |-> content]}

\* every class label, in the order Array.prototype.sort() gives
SortedLabels == <<"ork", "tau">>

\* a line that fills the keypoints of a box without base with zeros
yoloLine_placeholders(ann, classIndex, imgWidth, imgHeight) ==
  LET mb == ann.modelBbox
      box == <<R(classIndex),
               toFixed(JsDiv(RAdd(mb.x, RDiv(mb.width, R(2))), imgWidth)),
               toFixed(JsDiv(RAdd(mb.y, RDiv(mb.height, R(2))), imgHeight)),
               toFixed(JsDiv(mb.width, imgWidth)),
               toFixed(JsDiv(mb.height, imgHeight))>>
  IN  box \o [k \in 1..12 |-> R(0)]

\* exportImageAndLabel: the line of one annotation
yoloLine(ann, classIndex, imgWidth, imgHeight) ==
  LET mb == ann.modelBbox
      x_center == JsDiv(RAdd(mb.x, RDiv(mb.width, R(2))), imgWidth)
      y_center == JsDiv(RAdd(mb.y, RDiv(mb.height, R(2))), imgHeight)
      width == JsDiv(mb.width, imgWidth)
      height == JsDiv(mb.height, imgHeight)
      box == <<R(classIndex), toFixed(x_center), toFixed(y_center),
               toFixed(width), toFixed(height)>>
  IN  IF ann.baseBbox # NoBase
      THEN LET bb == ann.baseBbox[1]
               left == JsDiv(bb.x, imgWidth)
               right == JsDiv(RAdd(bb.x, bb.width), imgWidth)
               top == JsDiv(bb.y, imgHeight)
               bottom == JsDiv(RAdd(bb.y, bb.height), imgHeight)
               keypoints == <<left, top, R(1), right, top, R(1),
                              right, bottom, R(1), left, bottom, R(1)>>
           IN  box \o [k \in 1..Len(keypoints) |-> toFixed(keypoints[k])]
      ELSE box

\* an encoder that numbers the classes from 1
exportImageAndLabel_oneBased(out, image, annotation, imagesDir, labelsDir, classes, imgWidth, imgHeight) ==
  LET known == SelectSeq(annotation.annotations,
                         LAMBDA ann : \E i \in 1..Len(classes) : classes[i] = ann.classLabel)
      yoloLines == [i \in 1..Len(known) |->
                      yoloLine(known[i],
                               CHOOSE c \in 1..Len(classes) :
                                 classes[c] = known[i].classLabel,
                               imgWidth, imgHeight)]
      copied == writeFile(out, imagesDir, [stem |-> image.stem, ext |-> image.ext],
                          FileContent("image", image.imageId, <<>>, <<>>))
  IN  writeFile(copied, labelsDir, [stem |-> image.stem, ext |-> "txt"],
                FileContent("label", 0, yoloLines, <<>>))

\* the class index is the zero-based position in classes
exportImageAndLabel(out, image, annotation, imagesDir, labelsDir, classes, imgWidth, imgHeight) ==
  LET known == SelectSeq(annotation.annotations,
                         LAMBDA ann : \E i \in 1..Len(classes) : classes[i] = ann.classLabel)
      yoloLines == [i \in 1..Len(known) |->
                      yoloLine(known[i],
                               (CHOOSE c \in 1..Len(classes) :
                                  classes[c] = known[i].classLabel) - 1,
                               imgWidth, imgHeight)]
      copied == writeFile(out, imagesDir, [stem |-> image.stem, ext |-> image.ext],
                          FileContent("image", image.imageId, <<>>, <<>>))
  IN  writeFile(copied, labelsDir, [stem |-> image.stem, ext |-> "txt"],
                FileContent("label", 0, yoloLines, <<>>))

\* the loop over one of the two sets
RECURSIVE exportSet(_, _, _, _, _)
exportSet(out, set, imagesDir, labelsDir, classes) ==
  IF set = <<>> THEN out
  ELSE exportSet(exportImageAndLabel(out, Head(set).image, Head(set).annotation,
                                     imagesDir, labelsDir, classes,
                                     Head(set).annotation.width,
                                     Head(set).annotation.height),
                 Tail(set), imagesDir, labelsDir, classes)

\* exportToYOLO, the records it exports, in the order of the image list
collected(st) ==
  LET imgs == SelectSeq(annotatedImagesOf(st),
                        LAMBDA im : Len(st[im.imageId][1].annotations) > 0)
  IN  [i \in 1..Len(imgs) |-> [image |-> imgs[i], annotation |-> st[imgs[i].imageId][1]]]

\* a split whose validation set starts one record early
splitOf_overlapping(records, trainSplit, order) ==
  LET shuffled == [i \in 1..Len(records) |-> records[order[i]]]
      trainCount == Floor(RMul(R(Len(shuffled)), trainSplit))
  IN  [trainSet |-> SubSeq(shuffled, 1, trainCount),
       valSet |-> SubSeq(shuffled, IF trainCount > 0 THEN trainCount ELSE 1,
                         Len(shuffled))]

\* exportToYOLO, the split: order is the permutation the shuffle happens to
\* make; trainSplit lies in [0, 1]
splitOf(records, trainSplit, order) ==
  LET shuffled == [i \in 1..Len(records) |-> records[order[i]]]
      trainCount == Floor(RMul(R(Len(shuffled)), trainSplit))
  IN  [trainSet |-> SubSeq(shuffled, 1, trainCount),
       valSet |-> SubSeq(shuffled, trainCount + 1, Len(shuffled))]

\* exportToYOLO: threw is the Error('No annotated images found')
exportToYOLO(st, out, trainSplit, order) ==
  IF Len(annotatedImagesOf(st)) = 0
  THEN [threw |-> TRUE, outputDir |-> out, trainImages |-> 0, valImages |-> 0]
  ELSE
  LET dirs == mkdir(mkdir(mkdir(mkdir(out, "images/train"), "images/val"),
                          "labels/train"), "labels/val")
      records == collected(st)
      labels == UNION {{records[i].annotation.annotations[k].classLabel :
                          k \in 1..Len(records[i].annotation.annotations)} :
                       i \in 1..Len(records)}
      classes == SelectSeq(SortedLabels, LAMBDA c : c \in labels)
      split == splitOf(records, trainSplit, order)
      train == exportSet(dirs, split.trainSet, "images/train", "labels/train", classes)
      val == exportSet(train, split.valSet, "images/val", "labels/val", classes)
      listed == writeFile(val, "", [stem |-> "classes", ext |-> "txt"],
                          FileContent("classes", 0, <<>>, classes))
      manifest == writeFile(listed, "", [stem |-> "data", ext |-> "yaml"],
                            FileContent("yaml", 0, <<>>, classes))
  IN  [threw |-> FALSE, outputDir |-> manifest,
       trainImages |-> Len(split.trainSet), valImages |-> Len(split.valSet)]

\* the orders a shuffle of n records can produce
ShuffleOrders(n) ==
  {p \in [1..n -> 1..n] : \A i, j \in 1..n : p[i] = p[j] => i = j}

\* an export route that reports every failure as a validation failure
exportAnswered_asValidationFailure(result) ==
  /\ outputDir' = result.outputDir
  /\ response' =
       IF result.threw
       THEN [NoResponse EXCEPT !.status = 400, !.code = "VALIDATION_FAILED"]
       ELSE [NoResponse EXCEPT !.status = 200,
               !.trainImages = result.trainImages,
               !.valImages = result.valImages]

\* POST /api/annotate/export, from the call of exportToYOLO on; an error
\* passed to next() is answered by errorHandler with status 500 and code
\* INTERNAL_ERROR
exportAnswered(result) ==
  /\ outputDir' = result.outputDir
  /\ response' =
       IF result.threw
       THEN [NoResponse EXCEPT !.status = 500, !.code = "INTERNAL_ERROR"]
       ELSE [NoResponse EXCEPT !.status = 200,
               !.trainImages = result.trainImages,
               !.valImages = result.valImages]

\* an export route that validates but exports all the same
exportValidated_notBlocking(validationResult, trainSplit) ==
  \E order \in ShuffleOrders(Len(collected(store))) :
    exportAnswered(exportToYOLO(store, outputDir, trainSplit, order))

\* POST /api/annotate/export, from the pre-export validation on
exportValidated(validationResult, trainSplit) ==
  IF validationResult.invalidAnnotations > 0
  THEN /\ response' = [NoResponse EXCEPT !.status = 400,
                         !.code = "VALIDATION_FAILED",
                         !.validation = validationResult.issues]
       /\ UNCHANGED outputDir
  ELSE \E order \in ShuffleOrders(Len(collected(store))) :
         exportAnswered(exportToYOLO(store, outputDir, trainSplit, order))

\* POST /api/annotate/export into the one output directory
postExport(trainSplit) ==
  /\ requests < MaxRequests
  /\ requests' = requests + 1
  /\ exportValidated(validateAllAnnotations(store), trainSplit)
  /\ UNCHANGED <<store, imageWidth, sessionVars, arithmetic>>
  /\ UNCHANGED <<logVars, viewVars, gestureVars, uiVars>>

(***************************************************************************)
(* The server driven by its clients: saves and exports in any order.       *)
(***************************************************************************)
IntRect(x, y, w, h) == Rect(R(x), R(y), R(w), R(h))

\* the records the clients post.
\* Image 1: "good", one box with a base inside it; "empty", the image skipped;
\* "outOfBounds", four boxes that each pass one edge of the image and one
\* inside; "baseOutside", the base passes the right edge of its box;
\* "duplicate", the same box twice and a small one; "degenerate", two boxes of
\* width 0 on one line; "noSize", the client knew no size of the image
\* (width: currentImage.width || 0); "noImage", imagePath names no image file;
\* "emptyNoImage", the same for a skipped image; "noId", no imageId.
\* Image 2: "full", one box that fills the image; "empty2", the image skipped;
\* "pairs", boxes of which two overlap by more than 0.9, two by exactly 0.9,
\* the others by less or not at all, one with a small side, one of 10 x 10.
\* Image 3: "tight", a base that fills its box; "overlapping", two boxes of
\* 100 x 100 that are 5 apart in x and in y.
Record(which) ==
  CASE which = "good" ->
         ImageAnnotation(1, 1, R(100), R(80),
           <<BboxAnnotationData(1, IntRect(10, 10, 40, 40),
                                <<IntRect(20, 20, 10, 10)>>, "ork")>>)
    [] which = "empty" -> ImageAnnotation(1, 1, R(100), R(80), <<>>)
    [] which = "outOfBounds" ->
         ImageAnnotation(1, 1, R(100), R(80),
           <<BboxAnnotationData(1, IntRect(90, 10, 20, 10), NoBase, "ork"),
             BboxAnnotationData(2, IntRect(-5, 10, 20, 20), NoBase, "ork"),
             BboxAnnotationData(3, IntRect(10, -5, 20, 20), NoBase, "ork"),
             BboxAnnotationData(4, IntRect(10, 70, 20, 20), NoBase, "ork"),
             BboxAnnotationData(5, IntRect(50, 40, 20, 20), NoBase, "ork")>>)
    [] which = "baseOutside" ->
         ImageAnnotation(1, 1, R(100), R(80),
           <<BboxAnnotationData(1, IntRect(10, 10, 40, 40),
                                <<IntRect(30, 30, 40, 10)>>, "ork")>>)
    [] which = "duplicate" ->
         ImageAnnotation(1, 1, R(100), R(80),
           <<BboxAnnotationData(1, IntRect(10, 10, 40, 40), NoBase, "ork"),
             BboxAnnotationData(2, IntRect(10, 10, 40, 40), NoBase, "tau"),
             BboxAnnotationData(3, IntRect(60, 60, 5, 5), NoBase, "ork")>>)
    [] which = "degenerate" ->
         ImageAnnotation(1, 1, R(100), R(80),
           <<BboxAnnotationData(1, IntRect(10, 10, 0, 20), NoBase, "ork"),
             BboxAnnotationData(2, IntRect(10, 20, 0, 20), NoBase, "ork")>>)
    [] which = "noSize" ->
         ImageAnnotation(1, 1, R(0), R(0),
           <<BboxAnnotationData(1, IntRect(10, 10, 40, 40),
                                <<IntRect(20, 20, 10, 10)>>, "ork")>>)
    [] which = "noImage" ->
         ImageAnnotation(1, 9, R(100), R(80),
           <<BboxAnnotationData(1, IntRect(10, 10, 40, 40), NoBase, "ork")>>)
    [] which = "noId" -> ImageAnnotation(0, 1, R(100), R(80), <<>>)
    [] which = "full" ->
         ImageAnnotation(2, 2, R(100), R(80),
           <<BboxAnnotationData(1, IntRect(0, 0, 100, 80), NoBase, "tau")>>)
    [] which = "empty2" -> ImageAnnotation(2, 2, R(100), R(80), <<>>)
    [] which = "tight" ->
         ImageAnnotation(3, 3, R(1000), R(800),
           <<BboxAnnotationData(1, IntRect(5, 5, 20, 30),
                                <<IntRect(5, 5, 20, 30)>>, "ork")>>)
    [] which = "overlapping" ->
         ImageAnnotation(3, 3, R(1000), R(800),
           <<BboxAnnotationData(1, IntRect(100, 100, 100, 100), NoBase, "ork"),
             BboxAnnotationData(2, IntRect(105, 105, 100, 100), NoBase, "ork")>>)
    [] which = "pairs" ->
         ImageAnnotation(2, 2, R(100), R(80),
           <<BboxAnnotationData(1, IntRect(10, 10, 40, 40), NoBase, "ork"),
             BboxAnnotationData(2, IntRect(11, 10, 40, 40), NoBase, "tau"),
             BboxAnnotationData(3, IntRect(30, 30, 40, 40), NoBase, "ork"),
             BboxAnnotationData(4, IntRect(60, 10, 20, 20), NoBase, "ork"),
             BboxAnnotationData(5, IntRect(60, 10, 20, 18), NoBase, "ork"),
             BboxAnnotationData(6, IntRect(5, 60, 5, 15), NoBase, "ork"),
             BboxAnnotationData(7, IntRect(80, 60, 10, 10), NoBase, "tau")>>)
    [] which = "emptyNoImage" -> ImageAnnotation(1, 9, R(100), R(80), <<>>)

SaveRequests ==
  {Record(which) : which \in {"good", "empty", "outOfBounds", "baseOutside",
                              "duplicate", "degenerate", "noSize", "noImage",
                              "noId", "full", "empty2", "tight", "overlapping",
                              "pairs", "emptyNoImage"}}

\* trainSplit of the request; 0.8 is the default
TrainSplits == {<<1, 2>>, <<4, 5>>}

\* the annotation files found at start: none, or one written before the
\* server validated what it saves
InitServer ==
  /\ \E w \in ImageWidths : Mount(<<>>, w)
  /\ SessionStart
  /\ arithmetic = "exact"
  /\ store \in {[i \in ImageIds |-> <<>>],
                [i \in ImageIds |-> IF i = 1 THEN <<Record("baseOutside")>> ELSE <<>>]}
  /\ outputDir = {}
  /\ response = NoResponse
  /\ requests = 0

NextServer ==
  \/ \E r \in SaveRequests : postSave(r)
  \/ \E f \in TrainSplits : postExport(f)

SpecServer == InitServer /\ [][NextServer]_vars

(***************************************************************************)
(* Properties of the command log and of the draw gestures (under Spec;     *)
(* the containment of base boxes under SpecFloat).                         *)
(***************************************************************************)
RECURSIVE UndoTimes(_, _)
UndoTimes(log, n) == IF n = 0 THEN log ELSE UndoTimes(undo(log), n - 1)

RECURSIVE RedoTimes(_, _)
RedoTimes(log, n) == IF n = 0 THEN log ELSE RedoTimes(redo(log), n - 1)

RECURSIVE ExecuteAll(_, _)
ExecuteAll(log, cmds) ==
  IF cmds = <<>> THEN log
  ELSE ExecuteAll(executeCommand(log, Head(cmds)), Tail(cmds))

\* the rectangle a draw gesture from screen point p to screen point q commits
GestureRect(v, p, q) ==
  LET a == screenToImage(v, R(p.x), R(p.y))
      b == screenToImage(v, R(q.x), R(q.y))
  IN  Rect(RMin(a.x, b.x), RMin(a.y, b.y), RAbs(RSub(b.x, a.x)), RAbs(RSub(b.y, a.y)))

\* gestures that pass the minimum size check
CommittingGestures ==
  {g \in ScreenPoints \X ScreenPoints :
     Abs(g[2].x - g[1].x) >= 10 /\ Abs(g[2].y - g[1].y) >= 10}

\* the add-box command a committing gesture builds when id is the fresh id
AddCommandFor(g, id) ==
  LET r == GestureRect(View, g[1], g[2])
  IN  ModelCommand("AddModelBox",
        BboxAnnotation(id, r.x, r.y, r.width, r.height, currentClass, NoBase))

\* runs of n add-box commands with the fresh ids nextId, nextId + 1, ...
AddRuns(n) ==
  {[i \in 1..n |-> AddCommandFor(gs[i], nextId + i - 1)] :
     gs \in [1..n -> CommittingGestures]}

\* C1: from every reachable collection, N add-box commands followed by N undos
\* give back the collection, and N redos then give the collection the N adds
\* had produced, boxes in the same order.
C1_AddsUndoneAndRedone ==
  \A n \in 0..MaxAdds : \A cmds \in AddRuns(n) :
    LET added == ExecuteAll(Log, cmds)
        undone == UndoTimes(added, n)
    IN  /\ undone.annotations = annotations
        /\ RedoTimes(undone, n).annotations = added.annotations

\* two adds have been undone twice: both wait on the redo stack, none is applied
C1_Witness ==
  /\ undoStack = <<>>
  /\ Len(redoStack) = 2
  /\ \A i \in 1..2 : redoStack[i].kind = "AddModelBox"
  /\ redoStack[1].bbox # redoStack[2].bbox

\* the commands the handlers can issue in the current state
IssuableCommands ==
  LET sel == Find(annotations, selectedId)
  IN  {AddCommandFor(g, nextId) : g \in {h \in CommittingGestures : mode = "model"}}
      \cup {ModelCommand("DeleteModelBox", sel[1]) :
              x \in {y \in {1} : selectedId # NullId /\ sel # <<>>}}
      \cup {BaseCommand("DeleteBaseBox", selectedId, BaseOf(sel[1])) :
              x \in {y \in {1} : selectedId # NullId /\ sel # <<>> /\ HasBase(sel[1])}}
      \cup {BaseCommand("AddBaseBox", selectedId, b) :
              b \in {r \in {LET a == screenToImage(View, R(g[1].x), R(g[1].y))
                                z == screenToImage(View, R(g[2].x), R(g[2].y))
                            IN  constrainToModelBbox(a.x, a.y, z.x, z.y, sel[1]) :
                            g \in {h \in CommittingGestures :
                                     mode = "base" /\ selectedId # NullId /\ sel # <<>>}} :
                       RLt(R(0), r.width) /\ RLt(R(0), r.height)}}

SameBoxes(a, b) ==
  /\ Len(a) = Len(b)
  /\ {a[i] : i \in 1..Len(a)} = {b[i] : i \in 1..Len(b)}

\* C2: for every command the editor can issue, executeCommand followed by undo
\* leaves the boxes there were before, each with its geometry, label and base.
C2_ExecuteThenUndoRestores ==
  \A c \in IssuableCommands :
    SameBoxes(undo(executeCommand(Log, c)).annotations, annotations)

\* a step of a handler that called executeCommand
ExecuteStep ==
  /\ \/ \E p \in ScreenPoints : handleMouseUp(p)
     \/ handleDeleteSelected
     \/ handleDeleteBaseBbox
  /\ undoStack' # undoStack

\* C3: after every executeCommand the command is the top of the applied stack
\* (on top of what the stack held) and the reversed stack is empty, whatever
\* it held; a redo right after changes nothing.
C3_ExecutePushesAndClearsRedo ==
  [][ExecuteStep =>
       /\ Len(undoStack') = Len(undoStack) + 1
       /\ SubSeq(undoStack', 1, Len(undoStack)) = undoStack
       /\ CommandExecute(undoStack'[Len(undoStack')], annotations) = annotations'
       /\ redoStack' = <<>>
       /\ redo(LogOf(annotations', undoStack', redoStack'))
            = LogOf(annotations', undoStack', redoStack')]_vars

\* box 1 was added and undone, then box 2 was added: the redo of box 1 is gone
C3_Witness ==
  /\ nextId = 3
  /\ Len(annotations) = 1
  /\ annotations[1].id = 2
  /\ Len(undoStack) = 1
  /\ undoStack[1].kind = "AddModelBox"
  /\ redoStack = <<>>

\* C4: undo on an empty applied stack and redo on an empty reversed stack
\* change neither the collection nor the stacks; otherwise one command moves
\* from the top of one stack to the top of the other, so the number of
\* commands in the two stacks stays what it was.
C4_UndoRedoMoveOneCommand ==
  [][ /\ Undo =>
           (IF Len(undoStack) = 0
            THEN UNCHANGED <<annotations, undoStack, redoStack>>
            ELSE /\ Len(redoStack') = Len(redoStack) + 1
                 /\ SubSeq(redoStack', 1, Len(redoStack)) = redoStack
                 /\ Append(undoStack', redoStack'[Len(redoStack')]) = undoStack)
      /\ Redo =>
           (IF Len(redoStack) = 0
            THEN UNCHANGED <<annotations, undoStack, redoStack>>
            ELSE /\ Len(undoStack') = Len(undoStack) + 1
                 /\ SubSeq(undoStack', 1, Len(undoStack)) = undoStack
                 /\ Append(redoStack', undoStack'[Len(undoStack')]) = redoStack)
      /\ (Undo \/ Redo) =>
           (Len(undoStack') + Len(redoStack') = Len(undoStack) + Len(redoStack)) ]_vars

\* everything has been undone: undo is now the no-op, redo moves a command back
C4_Witness ==
  /\ Len(undoStack) = 0
  /\ Len(redoStack) = 2
  /\ redoStack[1].kind = "DeleteModelBox"

\* validateAnnotation: not (base.x1 < model.x1 || base.y1 < model.y1 ||
\* base.x2 > model.x2 || base.y2 > model.y2)
BaseInsideModel(a) ==
  LET b == BaseOf(a)
  IN  /\ RLe(a.x, b.x)
      /\ RLe(a.y, b.y)
      /\ RLe(RAdd(b.x, b.width), RAdd(a.x, a.width))
      /\ RLe(RAdd(b.y, b.height), RAdd(a.y, a.height))

\* C6: every annotation that has a base box holds it inside its own rectangle
\* as the validator computes it (base.x + base.width, x + width, ... are the
\* sums the validator forms), in the editor's collection and in the copy
\* handed to the parent.
C6_BaseStaysInsideModel ==
  /\ \A i \in 1..Len(annotations) :
       HasBase(annotations[i]) => BaseInsideModel(annotations[i])
  /\ \A i \in 1..Len(parentAnnotations) :
       HasBase(parentAnnotations[i]) => BaseInsideModel(parentAnnotations[i])

\* C10: a pointer-up that ends a draw gesture less than 10 screen pixels wide
\* or less than 10 high changes nothing but the drawing state: the collection,
\* both stacks and the parent's copy stay, and the editor is idle again.
C10_SmallGestureDiscarded ==
  [][\A p \in ScreenPoints :
       (/\ handleMouseUp(p)
        /\ ~panning.isPanning
        /\ drawing.isDrawing
        /\ (Abs(p.x - drawing.startX) < 10 \/ Abs(p.y - drawing.startY) < 10))
       => /\ UNCHANGED <<annotations, undoStack, redoStack, parentAnnotations,
                         selectedId, mode, currentClass, nextId>>
          /\ drawing' = NotDrawing]_vars

\* a gesture is open with both stacks filled, and a pointer-up 6 pixels to the
\* right of its start (30 below) would end it
C10_Witness ==
  /\ drawing.isDrawing
  /\ ~panning.isPanning
  /\ drawing.startX = 0 /\ drawing.startY = 0
  /\ Len(undoStack) > 0
  /\ Len(redoStack) > 0
  /\ Len(annotations) > 0
  /\ scale # R(1)

(***************************************************************************)
(* Properties of the viewport (under SpecView).                            *)
(***************************************************************************)
\* C7: in every reachable state the zoom lies between 0.1 and 10.
C7_ZoomWithinClamp == RLe(ZoomMin, zoom) /\ RLe(zoom, R(ZoomMax))

\* points the transforms are probed with, on and off the integer grid
ProbePoints ==
  {Point(R(0), R(0)), Point(Frac(1, 3), R(-7)), Point(R(30), Frac(3203, 2))}

\* C8: in every reachable viewport (scale * zoom is never 0 there) and for
\* every probe point, screenToImage after imageToScreen is the identity, and
\* imageToScreen after screenToImage is the identity, in exact arithmetic.
C8_TransformsAreInverse ==
  /\ effectiveScale(View) # R(0)
  /\ \A pt \in ProbePoints :
       LET s == imageToScreen(View, pt.x, pt.y)
           i == screenToImage(View, pt.x, pt.y)
       IN  /\ screenToImage(View, s.x, s.y) = pt
           /\ imageToScreen(View, i.x, i.y) = pt

\* a fitted, zoomed and panned viewport
C8_Witness ==
  /\ imageLoaded
  /\ scale # R(1)
  /\ zoom # R(1)
  /\ panX # R(0)
  /\ panY # R(0)

\* C9: every wheel event at screen point p, clamped or not, leaves the image
\* point under p where it was: screenToImage(p) is the same before and after,
\* in exact arithmetic.
C9_WheelKeepsPointUnderCursor ==
  [][\A p \in WheelPoints, d \in WheelDeltas :
       handleWheel(p, d) =>
         screenToImage(Viewport(scale', zoom', panX', panY'), R(p.x), R(p.y))
           = screenToImage(View, R(p.x), R(p.y))]_vars

\* a wheel event was cut off at the upper clamp and moved the pan
C9_Witness ==
  /\ viewDepth > 0
  /\ zoom = R(ZoomMax)
  /\ panX # R(0)
  /\ ~panning.isPanning

(***************************************************************************)
(* Properties of the session (under SpecSession).                          *)
(***************************************************************************)
\* a loadNextImage that got an image from the server
LoadSucceeded == loadNextImageDone /\ getNextImage(annotatedImages) # <<>>

\* C5: after every successful loadNextImage both stacks of the editor are
\* empty and its collection is the one loaded for the image.
C5_LoadResetsEditor ==
  [][LoadSucceeded =>
       /\ undoStack' = <<>>
       /\ redoStack' = <<>>
       /\ annotations' = parentAnnotations']_vars

(***************************************************************************)
(* Properties of the annotation server (under SpecServer).                 *)
(***************************************************************************)
\* C11: a save request that names its image writes the record exactly when
\* its validation holds no error: with an error the request is refused (400)
\* and no annotation file changes; without one the record replaces the file
\* of its image, the others stay, and the answer (200) carries every warning
\* of the validation.
C11_SaveIffNoError ==
  [][ \A r \in SaveRequests :
        (postSave(r) /\ r.imageId # 0 /\ r.imagePath # 0) =>
          (IF issuesOfType(validateAnnotation(r), "error") # <<>>
           THEN (response'.status = 400 /\ store' = store)
           ELSE (/\ store' = [store EXCEPT ![r.imageId] = <<r>>]
                 /\ response'.status = 200
                 /\ response'.warnings = issuesOfType(validateAnnotation(r), "warning"))) ]_vars

\* a record with a duplicate and a small box was saved with its warnings, and
\* a later request with an error was refused
C11_Witness ==
  /\ store[1] = <<Record("duplicate")>>
  /\ response.status = 400
  /\ Len(response.errors) > 0

\* C12: every error a save is refused with names an annotation of the record
\* and the rule that annotation breaks.
C12_ErrorsNameBoxAndRule ==
  [][ LET \* e is an issue the rules give one box of r in an image of the size m
      RuleBroken(r, e, m) ==
        \E i \in 1..Len(r.annotations) :
          /\ e.bboxId = <<r.annotations[i].id>>
          /\ \E k \in 1..Len(bboxIssues(r.annotations[i], m.width, m.height)) :
               bboxIssues(r.annotations[i], m.width, m.height)[k] = e
      IN
          \A r \in SaveRequests :
            postSave(r) =>
              (\A k \in 1..Len(response'.errors) :
                 /\ response'.errors[k].bboxId # <<>>
                 /\ metadata(r.imagePath) # <<>>
                 /\ RuleBroken(r, response'.errors[k],
                               metadata(r.imagePath)[1])) ]_vars

\* C13: an export while some annotation file holds a record with an error is
\* refused as VALIDATION_FAILED, lists the errors of every such image, and
\* leaves the output directory as it was.
C13_ExportRefusedOnErrors ==
  [][ \A f \in TrainSplits :
        (/\ postExport(f)
         /\ \E i \in ImageIds :
              (/\ store[i] # <<>>
               /\ issuesOfType(validateAnnotation(store[i][1]), "error") # <<>>)) =>
          (/\ response'.status = 400
           /\ response'.code = "VALIDATION_FAILED"
           /\ outputDir' = outputDir
           /\ \A i \in ImageIds :
                (store[i] # <<>> /\ issuesOfType(validateAnnotation(store[i][1]), "error") # <<>>) =>
                  (\E k \in 1..Len(response'.validation) :
                     /\ response'.validation[k].imageId = i
                     /\ response'.validation[k].errors =
                          issuesOfType(validateAnnotation(store[i][1]), "error"))) ]_vars

\* an export was refused while one record had an error and another was fine
C13_Witness ==
  /\ response.code = "VALIDATION_FAILED"
  /\ Len(response.validation) = 1
  /\ store[1] = <<Record("baseOutside")>>
  /\ store[2] = <<Record("full")>>
  /\ outputDir = {}

\* C14: an export while no image has an annotation file fails, is not
\* reported as VALIDATION_FAILED, and makes no directory and no file.
C14_ExportOfNothingFails ==
  [][ \A f \in TrainSplits :
        (postExport(f) /\ annotatedImagesOf(store) = <<>>) =>
          (/\ response'.status # 200
           /\ response'.code # "VALIDATION_FAILED"
           /\ outputDir' = outputDir) ]_vars

\* an export of nothing has failed
C14_Witness ==
  /\ response.status = 500
  /\ response.code = "INTERNAL_ERROR"
  /\ annotatedImagesOf(store) = <<>>
  /\ outputDir = {}

\* the image and the label directory of each split
Splits == {<<"images/train", "labels/train">>, <<"images/val", "labels/val">>}

ImageEntry(d, image) ==
  [dir |-> d, name |-> [stem |-> image.stem, ext |-> image.ext],
   content |-> FileContent("image", image.imageId, <<>>, <<>>)]
LabelEntries(out, d, image) ==
  {e \in out : e.dir = d /\ e.name = [stem |-> image.stem, ext |-> "txt"]}

\* C15: a successful export copies the image of every record with an empty
\* annotation list into one split and writes an empty label file for it
\* into the label directory of that split.
C15_EmptyRecordsExported ==
  [][ \A f \in TrainSplits :
        (postExport(f) /\ response'.status = 200) =>
          (\A i \in 1..Len(TrainingData) :
             (/\ store[TrainingData[i].imageId] # <<>>
              /\ store[TrainingData[i].imageId][1].annotations = <<>>) =>
               (\E sp \in Splits :
                  /\ ImageEntry(sp[1], TrainingData[i]) \in outputDir'
                  /\ \E e \in LabelEntries(outputDir', sp[2], TrainingData[i]) :
                       e.content = FileContent("label", 0, <<>>, <<>>))) ]_vars

\* the exported records whose image file shares its name with no other
\* exported record
UniquelyNamed(st) ==
  {k \in 1..Len(collected(st)) :
     \A j \in 1..Len(collected(st)) :
       (collected(st)[j].image.stem = collected(st)[k].image.stem
        /\ collected(st)[j].image.ext = collected(st)[k].image.ext) => j = k}

C17_LabelLineFields ==
  [][ LET CornerKeypoints(bb, w, h) ==
        << toFixed(JsDiv(bb.x, w)), toFixed(JsDiv(bb.y, h)), R(1),
           toFixed(JsDiv(RAdd(bb.x, bb.width), w)), toFixed(JsDiv(bb.y, h)), R(1),
           toFixed(JsDiv(RAdd(bb.x, bb.width), w)),
             toFixed(JsDiv(RAdd(bb.y, bb.height), h)), R(1),
           toFixed(JsDiv(bb.x, w)), toFixed(JsDiv(RAdd(bb.y, bb.height), h)), R(1) >>
      IN
      \A f \in TrainSplits :
        (postExport(f) /\ response'.status = 200 /\ outputDir = {}) =>
          (\A k \in UniquelyNamed(store) :
             \A sp \in Splits :
               \A e \in LabelEntries(outputDir', sp[2], collected(store)[k].image) :
                 LET rec == collected(store)[k].annotation
                 IN  /\ Len(e.content.lines) = Len(rec.annotations)
                     /\ \A n \in 1..Len(rec.annotations) :
                          IF rec.annotations[n].baseBbox = NoBase
                          THEN Len(e.content.lines[n]) = 5
                          ELSE /\ Len(e.content.lines[n]) = 17
                               /\ SubSeq(e.content.lines[n], 6, 17) =
                                    CornerKeypoints(rec.annotations[n].baseBbox[1],
                                                    rec.width, rec.height)) ]_vars

\* a label file holds a line of 17 fields and another one of 5
C17_Witness ==
  /\ response.status = 200
  /\ \E e \in outputDir :
       e.content.kind = "label" /\ \E n \in 1..Len(e.content.lines) :
         Len(e.content.lines[n]) = 17
  /\ \E e \in outputDir :
       e.content.kind = "label" /\ \E n \in 1..Len(e.content.lines) :
         Len(e.content.lines[n]) = 5

\* C18: every box value and every keypoint of every label file written is a
\* number between 0 and 1 (only records the save route accepted are exported:
\* an export is refused while a record has an error).
C18_ExportedValuesNormalized ==
  \A e \in outputDir :
    e.content.kind = "label" =>
      \A n \in 1..Len(e.content.lines) :
        \A k \in 2..Len(e.content.lines[n]) :
          /\ IsFinite(e.content.lines[n][k])
          /\ RLe(R(0), e.content.lines[n][k])
          /\ RLe(e.content.lines[n][k], R(1))

\* C19: the IoU of the box of a saved annotation with itself is 1.
C19_IoUOfABoxWithItself ==
  \A i \in ImageIds :
    store[i] # <<>> =>
      \A n \in 1..Len(store[i][1].annotations) :
        calculateIoU(store[i][1].annotations[n].modelBbox,
                     store[i][1].annotations[n].modelBbox) = R(1)

\* C20: the IoU of the boxes of two annotations of a saved record whose
\* interiors do not overlap is 0.
C20_IoUOfDisjointBoxes ==
  LET \* the interiors of two boxes share no point
      InteriorsDisjoint(a, b) ==
        \/ RLe(RMin(RAdd(a.x, a.width), RAdd(b.x, b.width)), RMax(a.x, b.x))
        \/ RLe(RMin(RAdd(a.y, a.height), RAdd(b.y, b.height)), RMax(a.y, b.y))
  IN
  \A i \in ImageIds :
    store[i] # <<>> =>
      \A n, m \in 1..Len(store[i][1].annotations) :
        (n # m /\ InteriorsDisjoint(store[i][1].annotations[n].modelBbox,
                                    store[i][1].annotations[m].modelBbox)) =>
          calculateIoU(store[i][1].annotations[n].modelBbox,
                       store[i][1].annotations[m].modelBbox) = R(0)

\* C21: for the boxes of any two annotations of a saved record the IoU is a
\* number from 0 to 1 and does not depend on the order of the two boxes.
C21_IoUSymmetricInUnitRange ==
  \A i \in ImageIds :
    store[i] # <<>> =>
      \A n, m \in 1..Len(store[i][1].annotations) :
        LET a == store[i][1].annotations[n].modelBbox
            b == store[i][1].annotations[m].modelBbox
        IN  /\ IsFinite(calculateIoU(a, b))
            /\ RLe(R(0), calculateIoU(a, b))
            /\ RLe(calculateIoU(a, b), R(1))
            /\ calculateIoU(a, b) = calculateIoU(b, a)

C23_ExampleIsDuplicate ==
  [][ postSave(Record("overlapping")) =>
        (\E k \in 1..Len(response'.warnings) :
           response'.warnings[k].code = "DUPLICATE_BOX") ]_vars

\* C24: when the validation of a save request has the size W x H of the
\* image, it gives an annotation a BBOX_OUT_OF_BOUNDS issue exactly when
\* x < 0 or y < 0 or x + width > W or y + height > H; the issue is one error.
C24_OutOfBoundsIffOutside ==
  [][ \A r \in SaveRequests :
        (postSave(r) /\ r.imageId # 0 /\ r.imagePath # 0
           /\ metadata(r.imagePath) # <<>>) =>
          (\A i \in 1..Len(r.annotations) :
             LET b == r.annotations[i].modelBbox
                 W == R(metadata(r.imagePath)[1].width)
                 H == R(metadata(r.imagePath)[1].height)
                 issue == QualityIssue("error", "BBOX_OUT_OF_BOUNDS",
                                       <<r.annotations[i].id>>)
             IN  /\ Len(SelectSeq(response'.errors, LAMBDA e : e = issue))
                      = (IF \/ b.x[1] < 0
                            \/ b.y[1] < 0
                            \/ ~RLe(RAdd(b.x, b.width), W)
                            \/ ~RLe(RAdd(b.y, b.height), H)
                         THEN 1 ELSE 0)
                 /\ \A k \in 1..Len(response'.warnings) :
                      response'.warnings[k].code # "BBOX_OUT_OF_BOUNDS") ]_vars

\* a box that fills its image was saved, and then a request was refused for
\* its four boxes outside the image and not for the fifth
C24_Witness ==
  /\ store[2] = <<Record("full")>>
  /\ response.status = 400
  /\ response.errors = [k \in 1..4 |-> QualityIssue("error", "BBOX_OUT_OF_BOUNDS", <<k>>)]

C26_BaseOutsideOncePerBox ==
  [][ LET Within(px, py, m) ==
            /\ RLe(m.x, px) /\ RLe(px, RAdd(m.x, m.width))
            /\ RLe(m.y, py) /\ RLe(py, RAdd(m.y, m.height))
          CornerOutside(m, b) ==
            \E px \in {b.x, RAdd(b.x, b.width)}, py \in {b.y, RAdd(b.y, b.height)} :
              ~Within(px, py, m)
      IN
      \A r \in SaveRequests :
        (postSave(r) /\ r.imageId # 0 /\ r.imagePath # 0
           /\ metadata(r.imagePath) # <<>>) =>
          (\A i \in 1..Len(r.annotations) :
             /\ Len(SelectSeq(response'.errors,
                      LAMBDA e : e = QualityIssue("error", "BASE_OUTSIDE_MODEL",
                                                  <<r.annotations[i].id>>)))
                  = (IF /\ r.annotations[i].baseBbox # NoBase
                        /\ CornerOutside(r.annotations[i].modelBbox,
                                         r.annotations[i].baseBbox[1])
                     THEN 1 ELSE 0)
             /\ \A k \in 1..Len(response'.warnings) :
                  response'.warnings[k].code # "BASE_OUTSIDE_MODEL") ]_vars

\* a base that fills its box was saved, and then a request was refused for a
\* base that passes the right edge of its box
C26_Witness ==
  /\ store[3] = <<Record("tight")>>
  /\ response.status = 400
  /\ response.errors = <<QualityIssue("error", "BASE_OUTSIDE_MODEL", <<1>>)>>

\* C27: a save request with an empty annotation list is validated without an
\* issue and its record is saved.
C27_EmptyRecordAccepted ==
  [][ \A r \in SaveRequests :
        (postSave(r) /\ r.imageId # 0 /\ r.imagePath # 0 /\ r.annotations = <<>>) =>
          (/\ response'.errors = <<>>
           /\ response'.warnings = <<>>
           /\ response'.status = 200
           /\ store'[r.imageId] = <<r>>) ]_vars

\* C28: a successful export into an empty output directory lists in
\* classes.txt and in data.yaml the distinct class labels of the exported
\* annotations, each once and in sorted order; the label file of a record
\* (one whose file name no other record shares) has one line per annotation of
\* the record, and the class index of the line is the zero-based position of
\* the annotation's label in that list, so at least 0 and below the class count.
C28_ClassIndexIsSortedPosition ==
  [][ \A f \in TrainSplits :
        (postExport(f) /\ response'.status = 200 /\ outputDir = {}) =>
          (LET labels ==
                 UNION {{collected(store)[k].annotation.annotations[n].classLabel :
                           n \in 1..Len(collected(store)[k].annotation.annotations)} :
                        k \in 1..Len(collected(store))}
               Listed(kind, stem, ext) ==
                 {e \in outputDir' : /\ e.dir = ""
                                     /\ e.name = [stem |-> stem, ext |-> ext]
                                     /\ e.content.kind = kind}
           IN  /\ Cardinality(Listed("classes", "classes", "txt")) = 1
               /\ Cardinality(Listed("yaml", "data", "yaml")) = 1
               /\ \A c \in Listed("classes", "classes", "txt") \cup Listed("yaml", "data", "yaml") :
                    /\ {c.content.names[i] : i \in 1..Len(c.content.names)} = labels
                    /\ \A i, j \in 1..Len(c.content.names) :
                         i < j =>
                           \E a, b \in 1..Len(SortedLabels) :
                             /\ a < b
                             /\ SortedLabels[a] = c.content.names[i]
                             /\ SortedLabels[b] = c.content.names[j]
                    /\ \A k \in UniquelyNamed(store) :
                         \A sp \in Splits :
                           \A e \in LabelEntries(outputDir', sp[2], collected(store)[k].image) :
                             LET rec == collected(store)[k].annotation
                             IN  /\ Len(e.content.lines) = Len(rec.annotations)
                                 /\ \A n \in 1..Len(rec.annotations) :
                                      /\ e.content.lines[n][1][2] = 1
                                      /\ e.content.lines[n][1][1] >= 0
                                      /\ e.content.lines[n][1][1] < Len(c.content.names)
                                      /\ c.content.names[e.content.lines[n][1][1] + 1]
                                           = rec.annotations[n].classLabel) ]_vars

\* an export listed two classes and wrote a line for each of them
C28_Witness ==
  /\ response.status = 200
  /\ \E c \in outputDir : c.content.kind = "classes" /\ c.content.names = <<"ork", "tau">>
  /\ \E e \in outputDir :
       /\ e.content.kind = "label"
       /\ \E n \in 1..Len(e.content.lines) : e.content.lines[n][1] = R(1)
       /\ \E n \in 1..Len(e.content.lines) : e.content.lines[n][1] = R(0)

\* C29: an export over the records and with the split fraction of the export
\* that filled the output directory leaves in the directory what one export
\* into an empty directory produces.
C29_RerunIsIdempotent ==
  [][ \A f \in TrainSplits :
        (/\ postExport(f)
         /\ response'.status = 200
         /\ \E order \in ShuffleOrders(Len(collected(store))) :
              outputDir = exportToYOLO(store, {}, f, order).outputDir) =>
          (\E order \in ShuffleOrders(Len(collected(store))) :
             outputDir' = exportToYOLO(store, {}, f, order).outputDir) ]_vars

\* C30: a skip or a save that has completed for the current image leaves the
\* image marked as processed, so that get-next-image does not return it again.
C30_SkipOrSaveMarksProcessed ==
  [][ ((\E stored \in BOOLEAN : skipImage(stored)) \/ saveAnnotations(TRUE)) =>
        (/\ currentImage \in annotatedImages'
         /\ getNextImage(annotatedImages') # <<currentImage>>) ]_vars

(***************************************************************************)
(* Claims about the editor's gestures, selection and history.              *)
(***************************************************************************)
\* C31: a primary pointer-down whose image-space point lies inside an existing
\* box selects that box and starts no gesture; the collection, the applied
\* stack and the reversed stack are unchanged.
C31_PointerDownInsideBoxSelects ==
  [][ \A p \in ScreenPoints :
        LET imagePos == screenToImage(View, R(p.x), R(p.y))
            inside == {i \in 1..Len(annotations) : isPointInBox(annotations[i], imagePos)}
        IN  (handleMouseDown(p, 0, FALSE) /\ inside # {}) =>
              (/\ \E i \in inside : selectedId' = annotations[i].id
               /\ drawing' = drawing
               /\ UNCHANGED <<annotations, undoStack, redoStack>>) ]_vars

\* C31 (amended): a primary pointer-down whose image-space point lies inside an
\* existing box leaves the collection and both stacks unchanged.  In model
\* mode, and in base mode when the selected box does not contain the point, it
\* selects the first box of the collection that contains the point and starts
\* no gesture; in base mode with the point inside the selected box it keeps
\* the selection and starts the base-box gesture at that point.
C31_PointerDownInsideBoxSelectsOrDrawsBase ==
  [][ \A p \in ScreenPoints :
        LET imagePos == screenToImage(View, R(p.x), R(p.y))
            inside == {i \in 1..Len(annotations) : isPointInBox(annotations[i], imagePos)}
            first == CHOOSE i \in inside : \A j \in inside : i <= j
            inSelected == \E i \in inside : annotations[i].id = selectedId
        IN  (handleMouseDown(p, 0, FALSE) /\ inside # {}) =>
              (/\ UNCHANGED <<annotations, undoStack, redoStack>>
               /\ IF mode = "base" /\ inSelected
                  THEN /\ selectedId' = selectedId
                       /\ drawing' = [isDrawing |-> TRUE, startX |-> p.x, startY |-> p.y]
                  ELSE /\ selectedId' = annotations[first].id
                       /\ drawing' = drawing) ]_vars

\* a base-box gesture is under way that started inside the selected box, and
\* a second box holds the anchor too
C31_Witness ==
  /\ mode = "base"
  /\ drawing.isDrawing
  /\ Len(annotations) = 2
  /\ \A i \in 1..2 :
       isPointInBox(annotations[i],
                    screenToImage(View, R(drawing.startX), R(drawing.startY)))
  /\ selectedId = annotations[2].id

\* C32: every commit of an edit is followed by a run of the validator's
\* single-annotation checks before the next gesture is processed: when a
\* gesture is under way after a commit, the validator has answered a request.
C32_CommitValidatedBeforeNextGesture ==
  (drawing.isDrawing /\ undoStack # <<>>) => requests > 0

\* C32 (amended): a commit of a model-box or base-box gesture hands the new
\* collection to the parent component and sends nothing to the validator; the
\* single-annotation checks run when the parent saves the record.
C32_CommitToldToParentOnly ==
  [][ \A p \in ScreenPoints :
        (handleMouseUp(p) /\ undoStack' # undoStack) =>
          (/\ annotations' = CommandExecute(undoStack'[Len(undoStack')], annotations)
           /\ parentAnnotations' = annotations'
           /\ UNCHANGED <<store, response, requests>>) ]_vars

\* a model box and then its base box were committed, the parent holds the
\* collection, and no request has reached the server
C32_Witness ==
  /\ Len(undoStack) = 2
  /\ undoStack[2].kind = "AddBaseBox"
  /\ parentAnnotations = annotations
  /\ requests = 0

\* C33: the viewport (zoom, panX, panY) is changed only by wheel-zoom, a pan
\* drag and the two view-reset buttons; and wheel-zoom, the pan gesture
\* (pointer-down, drag, pointer-up) and the view-reset buttons leave the
\* annotation collection, the selection and both command stacks unchanged.
C33_ViewportAndEditsAreSeparate ==
  [][ LET wheel == \E p \in WheelPoints, d \in EditorWheelDeltas : handleWheel(p, d)
          panDown == \E p \in EditorPoints :
                       handleMouseDown(p, 1, FALSE) \/ handleMouseDown(p, 1, TRUE)
                         \/ handleMouseDown(p, 0, TRUE)
          panDrag == panning.isPanning /\ \E p \in EditorPoints : handleMouseMove(p)
          panUp == panning.isPanning /\ \E p \in EditorPoints : handleMouseUp(p)
      IN  /\ (<<zoom, panX, panY>>' # <<zoom, panX, panY>>) =>
                (wheel \/ panDrag \/ resetView \/ zoomToActual)
          /\ (<<annotations, selectedId, undoStack, redoStack>>'
                 # <<annotations, selectedId, undoStack, redoStack>>) =>
                ~(wheel \/ panDown \/ panDrag \/ panUp \/ resetView \/ zoomToActual) ]_vars

\* a zoomed and panned view over a collection with a committed draw and a
\* selected box
C33_Witness ==
  /\ zoom # R(1)
  /\ panX # R(0)
  /\ ~panning.isPanning
  /\ undoStack # <<>>
  /\ Find(annotations, selectedId) # <<>>

\* C34: the editor is in exactly one of the states Idle, Drawing and Panning:
\* the drawing flag and the panning flag are never both set.
C34_DrawingAndPanningExclusive ==
  ~(drawing.isDrawing /\ panning.isPanning)

\* C35: every pointer-up received while the editor is Drawing ends the
\* gesture, whether the gesture is committed or discarded, in model mode and
\* in base mode: whenever the drawing flag is set, handleMouseUp clears it for
\* every pointer position.
C35_PointerUpEndsDrawing ==
  drawing.isDrawing => \A p \in ScreenPoints : mouseUpClearsDrawing(p)

\* C36: the selection is either empty or the id of a box that is in the
\* annotation collection; in base mode with a selection the parent exists.
C36_SelectionNamesABox ==
  selectedId = NullId \/ \E i \in 1..Len(annotations) : annotations[i].id = selectedId

\* C37: the ids in the annotation collection are pairwise distinct after any
\* sequence of committed draws, deletes, base edits, undo and redo.
C37_IdsPairwiseDistinct ==
  \A i, j \in 1..Len(annotations) : annotations[i].id = annotations[j].id => i = j

\* two boxes, one of them deleted and brought back by undo
C37_Witness ==
  /\ Len(annotations) = 2
  /\ redoStack # <<>>
  /\ redoStack[1].kind = "DeleteModelBox"

\* C38: a class-label change applied to a box is kept across history
\* navigation: undoing and redoing the latest command brings every box of the
\* collection back with the label it had before the undo.
C38_LabelKeptAcrossUndoRedo ==
  undoStack # <<>> =>
    LET after == redo(undo(Log)).annotations
    IN  {<<after[i].id, after[i].classLabel>> : i \in 1..Len(after)} =
        {<<annotations[i].id, annotations[i].classLabel>> : i \in 1..Len(annotations)}

\* C39: a machine-suggested box that was rejected or marked for redraw is
\* never part of the annotation list sent to save, and each suggested box has
\* at most one disposition.
C39_RejectedNeverSaved ==
  LET sent == allAnnotations(parentAnnotations, processedPredictions)
      n == Len(processedPredictions)
  IN  /\ \A k \in 1..n :
           processedPredictions[k].validationAction \in {"rejected", "redrawn"} =>
             \A i \in 1..Len(sent) : sent[i].id # processedPredictions[k].box.id
      /\ \A k, l \in 1..n :
           processedPredictions[k].box.id = processedPredictions[l].box.id => k = l

\* C40: a single export into an empty output directory writes one distinct
\* image file and one distinct label file per exported record: the label
\* files in labels/train and in labels/val, and the image files in
\* images/train and in images/val, are as many as the returned trainImages
\* and valImages.
C40_OneFilePerExportedRecord ==
  [][ \A f \in TrainSplits :
        (postExport(f) /\ response'.status = 200 /\ outputDir = {}) =>
          LET files(d, kind) ==
                Cardinality({e \in outputDir' : e.dir = d /\ e.content.kind = kind})
          IN  /\ files("labels/train", "label") = response'.trainImages
              /\ files("labels/val", "label") = response'.valImages
              /\ files("images/train", "image") = response'.trainImages
              /\ files("images/val", "image") = response'.valImages ]_vars

====
